---- MODULE Spec2Model ----
(***************************************************************************)
(* Model of the credential rotation scheduler of                          *)
(* gemini-loadbalance-rotator-worker: KeyManager (key-manager.ts) and      *)
(* KeyRotator (key-rotator.ts).                                            *)
(*                                                                         *)
(* Time is the value of Date.now() in milliseconds.  The synchronous       *)
(* stretch of code between two awaits is one action (or a run of actions   *)
(* during which nothing else is scheduled), and the clock only moves       *)
(* while a call is suspended.                                              *)
(***************************************************************************)
EXTENDS Integers, Sequences, FiniteSets, TLC

(***************************************************************************)
(* Bounds of the model.                                                    *)
(***************************************************************************)
NumKeys == 2
MaxTicks == 1
MaxChunks == 3
MaxEvents == 3
PoolSize == 2
MaxPoolTicks == 2
MaxLog == 3
MaxUsageTicks == 2
MaxKeyLen == 9

(***************************************************************************)
(* Program constants.                                                      *)
(***************************************************************************)
MsPerSecond == 1000
DefaultCooldownSeconds == 3600
HTTP_TOO_MANY == 429
HTTP_FORBIDDEN == 403
HTTP_TIMEOUT == 524

MODEL_TIERS == <<"gemini-2.5-pro", "gemini-2.5-flash">>

(***************************************************************************)
(* Input domains.                                                          *)
(***************************************************************************)
KeyName == <<"key-1", "key-2", "key-3", "key-4">>
KeyUniverse == {KeyName[i] : i \in 1..NumKeys}
NoKey == "null"
NoModel == "undefined"
RequestModels == {"gemini-2.5-pro", "gemini-2.5-flash", "gemini-1.5-pro"}
\* an optional number: <<>> is undefined, <<n>> is the number n
CooldownOptions == {<<>>, <<0>>, <<1>>}
TickMs == MsPerSecond
StartTime == MsPerSecond
EndTime == StartTime + MaxTicks * TickMs

(***************************************************************************)
(* Strings as sequences of characters: String.prototype.toLowerCase,       *)
(* String.prototype.includes and RegExp.prototype.test for a literal.      *)
(***************************************************************************)
UpperChars == <<"A","B","C","D","E","F","G","H","I","J","K","L","M",
                "N","O","P","Q","R","S","T","U","V","W","X","Y","Z">>
LowerChars == <<"a","b","c","d","e","f","g","h","i","j","k","l","m",
                "n","o","p","q","r","s","t","u","v","w","x","y","z">>

toLowerCaseChar(c) ==
    IF \E i \in 1..Len(UpperChars) : UpperChars[i] = c
    THEN LowerChars[CHOOSE i \in 1..Len(UpperChars) : UpperChars[i] = c]
    ELSE c

toLowerCase(s) == [i \in 1..Len(s) |-> toLowerCaseChar(s[i])]

includes(s, needle) ==
    \E i \in 0..(Len(s) - Len(needle)) :
        \A j \in 1..Len(needle) : s[i + j] = needle[j]

RATE_LIMIT == <<"r","a","t","e"," ","l","i","m","i","t">>
QUOTA == <<"q","u","o","t","a">>
EXHAUST == <<"e","x","h","a","u","s","t">>
RE_524 == <<"5","2","4">>

(***************************************************************************)
(* Provider errors: the fields the Rotator reads.  A number field 0 and    *)
(* an empty message stand for an absent (falsy) field.                     *)
(***************************************************************************)
Err(st, rs, sc, cd, msg) ==
    [status |-> st, response_status |-> rs, statusCode |-> sc, code |-> cd,
     message |-> msg]

NoErr == Err(0, 0, 0, 0, <<>>)

MSG_TOO_MANY == <<"T","o","o"," ","M","a","n","y">>
MSG_FAILED == <<"f","a","i","l","e","d">>
MSG_QUOTA == <<"Q","u","o","t","a"," ","h","i","t">>
MSG_RATE == <<"R","A","T","E"," ","L","I","M","I","T">>
MSG_EXHAUSTED == <<"R","E","S","_","E","X","H","A","U","S","T","E","D">>
MSG_524 == <<"e","r","r"," ","5","2","4">>
MSG_1524 == <<"1","5","2","4","m","s">>
MSG_BAD == <<"b","a","d"," ","r","e","q">>
MSG_RATE_SPLIT == <<"r","a","t","e","-","l","i","m","i","t">>

Errors ==
    { Err(429, 0, 0, 0, MSG_TOO_MANY),
      Err(0, 0, 403, 0, MSG_FAILED),
      Err(0, 429, 0, 0, MSG_FAILED),
      Err(524, 0, 0, 0, MSG_FAILED),
      Err(0, 524, 0, 0, <<>>),
      Err(0, 0, 0, 0, MSG_524),
      Err(500, 0, 0, 0, MSG_1524),
      Err(0, 0, 0, 0, MSG_QUOTA),
      Err(500, 0, 0, 0, MSG_RATE),
      Err(0, 0, 0, 0, MSG_EXHAUSTED),
      Err(400, 0, 0, 0, MSG_BAD),
      Err(0, 0, 0, 0, MSG_RATE_SPLIT) }

\* a || b on numbers: the first operand unless it is falsy
Or(a, b) == IF a # 0 THEN a ELSE b

\* the normalisation without the fallback to the message
NormalizedStatus_NoFallback(e) ==
    Or(Or(Or(e.status, e.response_status), e.statusCode), e.code)

\* key-rotator.ts:91, the status the catch block normalises
NormalizedStatus(e) ==
    Or(Or(Or(Or(e.status, e.response_status), e.statusCode), e.code),
       IF includes(e.message, RE_524) THEN HTTP_TIMEOUT ELSE 0)

isRecoverableError(e) ==
    LET msg == toLowerCase(e.message)
        status == Or(Or(e.status, e.statusCode), e.code)
    IN  \/ status = HTTP_TOO_MANY
        \/ status = HTTP_FORBIDDEN
        \/ includes(msg, RATE_LIMIT)
        \/ includes(msg, QUOTA)
        \/ includes(msg, EXHAUST)

(***************************************************************************)
(* KeyManager.                                                             *)
(***************************************************************************)
VARIABLES
    keys,                   \* KeyManager.keys
    keyStatus,              \* KeyManager.keyStatus
    tierCooldownMs,         \* KeyManager.tierCooldownMs
    hasKv,                  \* whether KeyManager.kv is bound
    kvDoc,                  \* the document stored under kvKey
    now,                    \* Date.now()
    perKeyCooldownSeconds,  \* KeyRotator.perKeyCooldownSeconds
    lastOp                  \* the last direct KeyManager call and what it returned

NoRec == [present |-> FALSE, exhaustedUntil |-> 0, lastExhaustedModel |-> NoModel]
EmptyRec == [present |-> TRUE, exhaustedUntil |-> 0, lastExhaustedModel |-> NoModel]
NoDoc == [present |-> FALSE, keys |-> <<>>, keyStatus |-> [x \in KeyUniverse |-> NoRec],
          savedAt |-> 0]
NoOp == [op |-> "none", key |-> NoKey, model |-> NoModel, cooldown |-> <<>>, at |-> 0,
         list |-> <<>>]

Range(s) == {s[i] : i \in 1..Len(s)}

\* a filter that lets every key through
KeyFilter_Unfiltered(rec, t) == TRUE

\* the filter of getNextAvailableKey (key-manager.ts:105-110)
KeyFilter(rec, t) ==
    IF ~rec.present THEN TRUE
    ELSE IF rec.exhaustedUntil = 0 THEN TRUE
    ELSE rec.exhaustedUntil <= t

AvailableList(ks, st, t) == SelectSeq(ks, LAMBDA x : KeyFilter(st[x], t))

\* every value getNextAvailableKey can return (the index is random)
getNextAvailableKey(ks, st, t) ==
    LET available == AvailableList(ks, st, t)
    IN  IF Len(available) = 0 THEN {NoKey}
        ELSE {available[idx] : idx \in 1..Len(available)}

\* isKeyAvailable with a strict comparison
isKeyAvailable_Strict(st, key, t) ==
    LET rec == st[key]
    IN  IF ~rec.present THEN TRUE
        ELSE IF rec.exhaustedUntil = 0 THEN TRUE
        ELSE rec.exhaustedUntil < t

isKeyAvailable(st, key, t) ==
    LET rec == st[key]
    IN  IF ~rec.present THEN TRUE
        ELSE IF rec.exhaustedUntil = 0 THEN TRUE
        ELSE rec.exhaustedUntil <= t

\* the snapshot the Rotator takes when it enters a tier
getAvailableKeys(ks, st, t) == AvailableList(ks, st, t)

\* cooldownSeconds ?? Math.round(tierCooldownMs / 1000), times 1000
CooldownMs(cooldown, tierMs) ==
    (IF cooldown # <<>> THEN cooldown[1] ELSE tierMs \div MsPerSecond) * MsPerSecond

markedKeys(ks, key) == IF key \in Range(ks) THEN ks ELSE Append(ks, key)

\* a mark that rebuilds the map around the marked key
markedStatus_ClearsOthers(st, key, model, cooldown, tierMs, t) ==
    [x \in DOMAIN st |->
        IF x = key
        THEN [present |-> TRUE,
              exhaustedUntil |-> t + CooldownMs(cooldown, tierMs),
              lastExhaustedModel |-> model]
        ELSE IF st[x].present THEN EmptyRec ELSE st[x]]

markedStatus(st, key, model, cooldown, tierMs, t) ==
    [st EXCEPT ![key] = [present |-> TRUE,
                         exhaustedUntil |-> t + CooldownMs(cooldown, tierMs),
                         lastExhaustedModel |-> model]]

\* saveState: a full overwrite of the document when a store is bound
savedDoc(ks, st, t) ==
    IF hasKv
    THEN [present |-> TRUE, keys |-> ks, keyStatus |-> st, savedAt |-> t]
    ELSE kvDoc

ksVars == <<keys, keyStatus, tierCooldownMs, hasKv, kvDoc, now, perKeyCooldownSeconds, lastOp>>

(***************************************************************************)
(* KeyRotator: one generateContent / streamContent call at a time (the     *)
(* request path builds a KeyManager and a KeyRotator per request).  The    *)
(* two methods run the same tier loop, key loop and catch block            *)
(* (key-rotator.ts:62-113 and 129-176): resolving the provider promise     *)
(* and draining the provider stream are the same step here.                *)
(***************************************************************************)
VARIABLES
    pc,             \* position of the call: idle, tier, loop, calling, wait, done
    reqModel,       \* the model argument
    i,              \* tier loop index (0-based, as in the source)
    availableKeys,  \* the snapshot of the current tier
    k,              \* key loop index
    triedKeys,      \* triedKeys of the current tier
    key,            \* the key of the attempt in progress
    result,         \* how the call ended
    lastErr,        \* the error the catch block handled last
    branch,         \* which branch of the catch block handled it
    attempts,       \* number of provider attempts of this call
    attempted,      \* the <<key, tier>> pairs passed to the provider by this call
    only429,        \* every provider failure of this call so far had e.status 429
    snapshots       \* tiers entered by this call with their snapshot size

rotVars == <<pc, reqModel, i, availableKeys, k, triedKeys, key, result, lastErr,
             branch, attempts, attempted, only429, snapshots>>

(***************************************************************************)
(* The streaming request path (routes/openai.ts): the task that drains     *)
(* streamContent into the writer of the output transport.                  *)
(***************************************************************************)
VARIABLES
    upstream,       \* the chunks the provider streams of this call have yielded
    out,            \* the chunks the writer has accepted, in order
    inflight,       \* the chunk yielded by streamContent whose write is pending
    pump            \* the draining task: none, draining, caught, closed, rejected

streamVars == <<upstream, out, inflight, pump>>

(***************************************************************************)
(* The StreamBridge (createOpenAIStreamTransformer): backend events in,    *)
(* protocol chunks out.                                                    *)
(***************************************************************************)
VARIABLES
    bridgeIn,       \* the backend events the bridge has consumed, in order
    bridgeOut,      \* the chunks the bridge has emitted, in order
    bridge          \* the bridge: phase, whether a tool call was emitted, usage data

bridgeVars == <<bridgeIn, bridgeOut, bridge>>

(***************************************************************************)
(* The client pool (getNextClient and the invalidation callback).          *)
(***************************************************************************)
VARIABLES
    clients,                  \* the pool: the indexes of its clients, in order
    currentIndex,             \* the rotating cursor
    invalidClientTimestamps,  \* index -> time of invalidation, 0 when there is no entry
    poolOp                    \* the last call on the pool and what it returned

poolVars == <<clients, currentIndex, invalidClientTimestamps, poolOp>>

(***************************************************************************)
(* Persistence: the load the KeyManager constructor starts without         *)
(* awaiting it, and the UsageTracker with its own document.                *)
(***************************************************************************)
VARIABLES
    kmLoad,         \* KeyManager.loadState: its state (none, pending, or how it
                    \* ended) and the document kv.get was issued against
    usage,          \* UsageTracker.usage
    usageDoc,       \* what the store holds under the usage key
    usageLoad,      \* UsageTracker.load: its state and the document of its kv.get
    usageOp,        \* the last recordUsage call
    peer,           \* a second KeyManager instance bound to the same store
    disk            \* the file system under saveJsonAtomic and the saves in progress

persistVars == <<kmLoad, usage, usageDoc, usageLoad, usageOp, peer, disk>>

(***************************************************************************)
(* The chat-completions handler (routes/openai.ts).                        *)
(***************************************************************************)
VARIABLES
    env,            \* the bindings of the worker: ENABLE_AUTO_MODEL_SWITCHING, the number
                    \* of GEMINI_API_KEY_ credentials and of keys in GEMINI_KEYS
    request,        \* the request being handled
    response        \* the status the handler answered with, 0 before it answers

reqVars == <<env, request, response>>

\* the state of the components other than KeyManager and KeyRotator
extVars == <<upstream, out, inflight, pump, bridgeIn, bridgeOut, bridge,
             clients, currentIndex, invalidClientTimestamps, poolOp,
             kmLoad, usage, usageDoc, usageLoad, usageOp, peer, disk,
             env, request, response>>

\* what the steps of one component leave alone
nonStream == <<bridgeVars, poolVars, persistVars, reqVars>>
nonBridge == <<ksVars, rotVars, streamVars, poolVars, persistVars, reqVars>>
nonPool == <<ksVars, rotVars, streamVars, bridgeVars, persistVars, reqVars>>

vars == <<keys, keyStatus, tierCooldownMs, hasKv, kvDoc, now, perKeyCooldownSeconds, lastOp,
          pc, reqModel, i, availableKeys, k, triedKeys, key, result, lastErr,
          branch, attempts, attempted, only429, snapshots, extVars>>

NoResult == [kind |-> "none", err |-> NoErr, tier |-> 0, key |-> NoKey]

\* Array.prototype.indexOf, 0-based, -1 when absent
indexOf(seq, x) ==
    IF \E n \in 1..Len(seq) : seq[n] = x
    THEN (CHOOSE n \in 1..Len(seq) : seq[n] = x /\ \A m \in 1..(n - 1) : seq[m] # x) - 1
    ELSE 0 - 1

\* a search that always starts at the first tier
startTier_Zero(model) == 0

startTier(model) ==
    IF indexOf(MODEL_TIERS, model) # 0 - 1 THEN indexOf(MODEL_TIERS, model) ELSE 0

currentModel(n) == MODEL_TIERS[n + 1]

\* a catch block that retries whatever the error is
CatchBranch_AlwaysRetry(e) ==
    IF NormalizedStatus(e) = HTTP_TIMEOUT THEN "timeout" ELSE "ratelimit"

\* the catch block: which branch handles error e
CatchBranch(e) ==
    IF NormalizedStatus(e) = HTTP_TIMEOUT THEN "timeout"
    ELSE IF isRecoverableError(e) THEN "ratelimit"
    ELSE "fatal"

\* a tier loop that stops one tier early
TiersExhausted_OneShort(n) == n >= Len(MODEL_TIERS) - 1

\* the bound of the tier loop (key-rotator.ts:65)
TiersExhausted(n) == n >= Len(MODEL_TIERS)

\* a key loop that runs one iteration more than the snapshot is long
KeysExhausted_OneMore(n, snap) == n > Len(snap)

\* the bound of the key loop (key-rotator.ts:74)
KeysExhausted(n, snap) == n >= Len(snap)

\* a test that forgets the tried set
SkipPick_NullOnly(picked, tried) == picked = NoKey

\* the test that skips a pick (key-rotator.ts:76)
SkipPick(picked, tried) == picked = NoKey \/ picked \in tried

\* a chunk slot that holds nothing
NoChunk == [type |-> "none", attempt |-> 0, seq |-> 0, data |-> <<>>]

\* no streaming request
StreamAtRest ==
    /\ upstream = <<>>
    /\ out = <<>>
    /\ inflight = NoChunk
    /\ pump = "none"

\* no bridge
NoBridge == [phase |-> "none", toolCalls |-> FALSE, usage |-> 0]

BridgeAtRest ==
    /\ bridgeIn = <<>>
    /\ bridgeOut = <<>>
    /\ bridge = NoBridge

NoClient == 0 - 1
NoPoolOp == [op |-> "none", client |-> NoClient, attempts |-> 0, tag |-> 0]

\* the module state of the pool before initializeClientPool
PoolAtRest ==
    /\ clients = <<>>
    /\ currentIndex = 0
    /\ invalidClientTimestamps = [j \in 0..(PoolSize - 1) |-> 0]
    /\ poolOp = NoPoolOp

NoUsageOp == [op |-> "none", rec |-> <<>>]
NoLoad == [state |-> "none", doc |-> NoDoc]
NoUsageDoc == [kind |-> "absent", recs |-> <<>>]
NoUsageLoad == [state |-> "none", doc |-> NoUsageDoc]

\* no second instance; no file, no save
NoPeer == [keys |-> <<>>, keyStatus |-> [x \in KeyUniverse |-> NoRec], load |-> NoLoad]
NoDisk == [target |-> 0, tmp |-> 0, content |-> <<>>, saver |-> <<>>]

\* no pending load, no UsageTracker, no second instance and no save
PersistAtRest ==
    /\ kmLoad = NoLoad
    /\ usage = <<>>
    /\ usageDoc = NoUsageDoc
    /\ usageLoad = NoUsageLoad
    /\ usageOp = NoUsageOp
    /\ peer = NoPeer
    /\ disk = NoDisk

\* a worker environment without credentials, keys or switching flag
NoEnv == [switching |-> "unset", credentials |-> 0, geminiKeys |-> 0]
NoRequest == [messages |-> 0, model |-> NoModel, known |-> FALSE, hasImages |-> FALSE,
              supportsImages |-> FALSE]

\* no request
HandlerAtRest ==
    /\ env = NoEnv
    /\ request = NoRequest
    /\ response = 0

\* a KeyManager with working set ks and records st, and an idle KeyRotator
Provisioned(ks, st, kv, docs) ==
    /\ keys = ks
    /\ keyStatus = st
    /\ tierCooldownMs = DefaultCooldownSeconds * MsPerSecond
    /\ hasKv = kv
    /\ kvDoc \in docs
    /\ now = StartTime
    /\ perKeyCooldownSeconds \in CooldownOptions
    /\ lastOp = NoOp
    /\ pc = "idle"
    /\ reqModel = MODEL_TIERS[1]
    /\ i = 0
    /\ availableKeys = <<>>
    /\ k = 0
    /\ triedKeys = {}
    /\ key = NoKey
    /\ result = NoResult
    /\ lastErr = NoErr
    /\ branch = "none"
    /\ attempts = 0
    /\ attempted = {}
    /\ only429 = TRUE
    /\ snapshots = <<>>

\* the state after construction, with or without a store bound (options.kv)
\* with sizes the numbers of configured keys and docs what the store may hold
ConstructedWith(kv, sizes, docs) ==
    \E n \in sizes :
        LET ks == [j \in 1..n |-> KeyName[j]]
        IN  Provisioned(ks,
                        [x \in KeyUniverse |-> IF x \in Range(ks) THEN EmptyRec ELSE NoRec],
                        kv, docs)

Constructed(kv) == ConstructedWith(kv, (NumKeys - 1)..NumKeys, {NoDoc})

RotatorInit == Constructed(TRUE)

\* the KeyManager and the KeyRotator with every key configured and no call made
RotatorAtRest ==
    /\ RotatorInit
    /\ Len(keys) = NumKeys
    /\ perKeyCooldownSeconds = <<>>

Init ==
    /\ RotatorInit
    /\ StreamAtRest
    /\ BridgeAtRest
    /\ PoolAtRest
    /\ PersistAtRest
    /\ HandlerAtRest

Suspended == pc \in {"idle", "calling", "wait", "done"}
Quiet == pc = "idle"

\* the clock advances while nothing runs
Tick ==
    /\ Suspended
    /\ now < EndTime
    /\ now' = now + TickMs
    /\ UNCHANGED <<keys, keyStatus, tierCooldownMs, hasKv, kvDoc, perKeyCooldownSeconds, lastOp>>
    /\ UNCHANGED rotVars
    /\ UNCHANGED extVars

\* a direct call of KeyManager.getNextAvailableKey
GetNextAvailableKeyCall ==
    /\ Quiet
    /\ \E r \in getNextAvailableKey(keys, keyStatus, now) :
          lastOp' = [op |-> "next", key |-> r, model |-> NoModel, cooldown |-> <<>>, at |-> 0,
                     list |-> <<>>]
    /\ UNCHANGED <<keys, keyStatus, tierCooldownMs, hasKv, kvDoc, now, perKeyCooldownSeconds>>
    /\ UNCHANGED rotVars
    /\ UNCHANGED extVars

\* a direct call of KeyManager.markKeyExhausted
MarkKeyExhaustedCall ==
    /\ Quiet
    /\ \E x \in KeyUniverse, m \in {NoModel}, c \in CooldownOptions :
          /\ keys' = markedKeys(keys, x)
          /\ keyStatus' = markedStatus(keyStatus, x, m, c, tierCooldownMs, now)
          /\ kvDoc' = savedDoc(keys', keyStatus', now)
          /\ lastOp' = [op |-> "mark", key |-> x, model |-> m, cooldown |-> c, at |-> now,
                        list |-> <<>>]
    /\ UNCHANGED <<tierCooldownMs, hasKv, now, perKeyCooldownSeconds>>
    /\ UNCHANGED rotVars
    /\ UNCHANGED extVars

\* generateContent / streamContent is called
StartCall ==
    /\ Quiet
    /\ \E m \in RequestModels :
          /\ reqModel' = m
          /\ i' = startTier(m)
    /\ pc' = "tier"
    /\ availableKeys' = <<>>
    /\ k' = 0
    /\ triedKeys' = {}
    /\ key' = NoKey
    /\ result' = NoResult
    /\ lastErr' = NoErr
    /\ branch' = "none"
    /\ attempts' = 0
    /\ attempted' = {}
    /\ only429' = TRUE
    /\ snapshots' = <<>>
    /\ lastOp' = NoOp
    /\ UNCHANGED <<keys, keyStatus, tierCooldownMs, hasKv, kvDoc, now, perKeyCooldownSeconds>>
    /\ UNCHANGED extVars

\* the head of the tier loop: past the last tier the call throws, otherwise it
\* snapshots the available keys and skips the tier when there are none
EnterTier ==
    /\ pc = "tier"
    /\ IF TiersExhausted(i)
       THEN /\ pc' = "done"
            /\ result' = [kind |-> "nokeys", err |-> NoErr, tier |-> i, key |-> NoKey]
            /\ UNCHANGED <<i, availableKeys, k, triedKeys, snapshots>>
       ELSE LET snap == getAvailableKeys(keys, keyStatus, now)
            IN  /\ snapshots' = Append(snapshots, [tier |-> i, size |-> Len(snap)])
                /\ availableKeys' = snap
                /\ IF Len(snap) = 0
                   THEN /\ i' = i + 1
                        /\ pc' = "tier"
                        /\ UNCHANGED <<k, triedKeys>>
                   ELSE /\ triedKeys' = {}
                        /\ k' = 0
                        /\ pc' = "loop"
                        /\ UNCHANGED i
                /\ UNCHANGED result
    /\ UNCHANGED <<reqModel, key, lastErr, branch, attempts, attempted, only429>>
    /\ UNCHANGED ksVars
    /\ UNCHANGED extVars

\* one iteration of the key loop up to the provider call
LoopStep ==
    /\ pc = "loop"
    /\ IF KeysExhausted(k, availableKeys)
       THEN /\ i' = i + 1
            /\ pc' = "tier"
            /\ UNCHANGED <<k, triedKeys, key, attempts, attempted>>
       ELSE \E picked \in getNextAvailableKey(keys, keyStatus, now) :
              IF SkipPick(picked, triedKeys)
              THEN IF Cardinality(triedKeys) >= Len(availableKeys)
                   THEN /\ i' = i + 1
                        /\ pc' = "tier"
                        /\ UNCHANGED <<k, triedKeys, key, attempts, attempted>>
                   ELSE /\ k' = k + 1
                        /\ pc' = "loop"
                        /\ UNCHANGED <<i, triedKeys, key, attempts, attempted>>
              ELSE /\ triedKeys' = triedKeys \cup {picked}
                   /\ key' = picked
                   /\ attempts' = attempts + 1
                   /\ attempted' = attempted \cup {<<picked, i>>}
                   /\ pc' = "calling"
                   /\ UNCHANGED <<i, k>>
    /\ UNCHANGED <<reqModel, availableKeys, result, lastErr, branch, only429, snapshots>>
    /\ UNCHANGED ksVars
    /\ UNCHANGED extVars

\* the provider call resolves (the provider stream completes)
ProviderSucceeds ==
    /\ pc = "calling"
    /\ pc' = "done"
    /\ result' = [kind |-> "ok", err |-> NoErr, tier |-> i, key |-> key]
    /\ UNCHANGED <<reqModel, i, availableKeys, k, triedKeys, key, lastErr, branch,
                   attempts, attempted, only429, snapshots>>
    /\ UNCHANGED ksVars
    /\ UNCHANGED extVars

\* the catch block, entered with error e
Caught(e) ==
    /\ pc = "calling"
    /\ lastErr' = e
    /\ branch' = CatchBranch(e)
    /\ only429' = (only429 /\ e.status = HTTP_TOO_MANY)
    /\ IF CatchBranch(e) \in {"timeout", "ratelimit"}
       THEN /\ keys' = markedKeys(keys, key)
            /\ keyStatus' = markedStatus(keyStatus, key, currentModel(i),
                                         perKeyCooldownSeconds, tierCooldownMs, now)
            /\ kvDoc' = savedDoc(keys', keyStatus', now)
            /\ lastOp' = [op |-> "mark", key |-> key, model |-> currentModel(i),
                          cooldown |-> perKeyCooldownSeconds, at |-> now,
                          list |-> <<>>]
            /\ pc' = "wait"
            /\ UNCHANGED result
       ELSE /\ pc' = "done"
            /\ result' = [kind |-> "thrown", err |-> e, tier |-> i, key |-> key]
            /\ UNCHANGED <<keys, keyStatus, kvDoc, lastOp>>
    /\ UNCHANGED <<tierCooldownMs, hasKv, now, perKeyCooldownSeconds>>
    /\ UNCHANGED <<reqModel, i, availableKeys, k, triedKeys, key, attempts, attempted,
                   snapshots>>
    /\ UNCHANGED extVars

\* the provider call rejects with some error
ProviderFails == \E e \in Errors : Caught(e)

\* the backoff timer fires: continue with the next iteration of the key loop
WaitDone ==
    /\ pc = "wait"
    /\ k' = k + 1
    /\ pc' = "loop"
    /\ lastErr' = NoErr
    /\ branch' = "none"
    /\ UNCHANGED <<reqModel, i, availableKeys, triedKeys, key, result, attempts,
                   attempted, only429, snapshots>>
    /\ UNCHANGED ksVars
    /\ UNCHANGED extVars

Next ==
    \/ Tick
    \/ GetNextAvailableKeyCall
    \/ MarkKeyExhaustedCall
    \/ StartCall
    \/ EnterTier
    \/ LoopStep
    \/ ProviderSucceeds
    \/ ProviderFails
    \/ WaitDone

Spec == Init /\ [][Next]_vars

(***************************************************************************)
(* The streaming request path: streamContent forwards the chunks of the    *)
(* provider stream to the draining task, which writes each to the output   *)
(* transport before it pulls the next one.                                 *)
(***************************************************************************)
\* the n-th chunk the provider stream of attempt a yields
ProviderChunk(a, n) == [type |-> "text", attempt |-> a, seq |-> n, data |-> <<>>]

\* every chunk streamContent has handed to its caller so far
Forwarded == IF inflight = NoChunk THEN out ELSE Append(out, inflight)

\* the chunks of attempt a among those of sequence o
ChunksOf(o, a) == SelectSeq(o, LAMBDA c : c.attempt = a)

ERROR_PREFIX == <<"E","r","r","o","r",":"," ">>
NO_KEYS_STREAM ==
    <<"N","o"," ","a","v","a","i","l","a","b","l","e"," ","A","P","I"," ",
      "k","e","y","s"," ","o","r"," ","a","l","l"," ","a","t","t","e","m","p","t","s"," ",
      "f","a","i","l","e","d"," ","(","s","t","r","e","a","m",")">>

\* streamError.message of what streamContent threw
errorMessage(res) == IF res.kind = "nokeys" THEN NO_KEYS_STREAM ELSE res.err.message

\* the chunk the catch block of the draining task writes
ErrorChunk(res) ==
    [type |-> "text", attempt |-> 0, seq |-> 0, data |-> ERROR_PREFIX \o errorMessage(res)]

\* a write that puts the chunk in front of what was written
written_Prepend(o, c) == <<c>> \o o

\* writer.write(chunk), once accepted
written(o, c) == Append(o, c)

\* a catch clause that lets provider errors through
PumpCatches_OnlyNoKeys(res) == res.kind = "nokeys"

\* catch (streamError: unknown): every error thrown while draining is caught
PumpCatches(res) == TRUE

\* what a provider stream raises: rate limit, upstream timeout, bad request
StreamErrors ==
    { Err(429, 0, 0, 0, MSG_TOO_MANY),
      Err(524, 0, 0, 0, MSG_FAILED),
      Err(400, 0, 0, 0, MSG_BAD) }

StreamInit ==
    /\ RotatorInit
    /\ upstream = <<>>
    /\ out = <<>>
    /\ inflight = NoChunk
    /\ pump = "draining"
    /\ BridgeAtRest
    /\ PoolAtRest
    /\ PersistAtRest
    /\ HandlerAtRest

\* a draining task that asks for the next chunk while a write is pending
MayPull_Eager(slot) == TRUE

\* for await (const chunk of geminiStream) { await writer.write(chunk); }: the
\* loop asks the generator for its next chunk only after the awaited write
MayPull(slot) == slot = NoChunk

\* the provider stream yields its next chunk: streamContent yields it to the
\* draining task, which hands it to the writer
ProviderYields ==
    /\ pc = "calling"
    /\ pump = "draining"
    /\ MayPull(inflight)
    /\ Len(upstream) < MaxChunks
    /\ inflight' = ProviderChunk(attempts, Len(ChunksOf(upstream, attempts)) + 1)
    /\ upstream' = Append(upstream, inflight')
    /\ UNCHANGED <<out, pump>>
    /\ UNCHANGED ksVars
    /\ UNCHANGED rotVars
    /\ UNCHANGED nonStream

\* the writer accepts the pending chunk; the draining task pulls again
WriteAccepted ==
    /\ pump = "draining"
    /\ inflight # NoChunk
    /\ out' = written(out, inflight)
    /\ inflight' = NoChunk
    /\ UNCHANGED <<upstream, pump>>
    /\ UNCHANGED ksVars
    /\ UNCHANGED rotVars
    /\ UNCHANGED nonStream

\* the provider stream completes: streamContent returns
StreamEnds ==
    /\ pump = "draining"
    /\ inflight = NoChunk
    /\ ProviderSucceeds

\* the provider stream raises, before or after chunks: the catch block
StreamRaises ==
    /\ pump = "draining"
    /\ inflight = NoChunk
    /\ \E e \in StreamErrors : Caught(e)

\* the for-await loop ends: the writer is closed
PumpCompletes ==
    /\ pump = "draining"
    /\ pc = "done"
    /\ result.kind = "ok"
    /\ inflight = NoChunk
    /\ pump' = "closed"
    /\ UNCHANGED <<upstream, out, inflight>>
    /\ UNCHANGED ksVars
    /\ UNCHANGED rotVars
    /\ UNCHANGED nonStream

\* streamContent threw: the catch block of the draining task writes the error chunk
PumpCatch ==
    /\ pump = "draining"
    /\ pc = "done"
    /\ result.kind \in {"thrown", "nokeys"}
    /\ IF PumpCatches(result)
       THEN /\ out' = written(out, ErrorChunk(result))
            /\ pump' = "caught"
       ELSE /\ pump' = "rejected"
            /\ UNCHANGED out
    /\ UNCHANGED <<upstream, inflight>>
    /\ UNCHANGED ksVars
    /\ UNCHANGED rotVars
    /\ UNCHANGED nonStream

\* the catch block closes the writer
PumpCloses ==
    /\ pump = "caught"
    /\ pump' = "closed"
    /\ UNCHANGED <<upstream, out, inflight>>
    /\ UNCHANGED ksVars
    /\ UNCHANGED rotVars
    /\ UNCHANGED nonStream

StreamNext ==
    \/ StartCall
    \/ EnterTier
    \/ LoopStep
    \/ WaitDone
    \/ ProviderYields
    \/ WriteAccepted
    \/ StreamEnds
    \/ StreamRaises
    \/ PumpCompletes
    \/ PumpCatch
    \/ PumpCloses

StreamSpec == StreamInit /\ [][StreamNext]_vars

(***************************************************************************)
(* The StreamBridge.  An event is a content delta (text or reasoning), a   *)
(* tool-call argument delta for a call index, or the terminal usage        *)
(* event.  Each chunk records the position of the event it carries (0 for  *)
(* the chunks the bridge makes itself).                                    *)
(***************************************************************************)
TextEvent == [type |-> "text", index |-> 0, tokens |-> 0]
ReasoningEvent == [type |-> "reasoning", index |-> 0, tokens |-> 0]
ToolEvent(n) == [type |-> "tool", index |-> n, tokens |-> 0]
UsageEvent == [type |-> "usage", index |-> 0, tokens |-> 7]

DeltaEvents == {TextEvent, ReasoningEvent, ToolEvent(0), ToolEvent(1)}

RoleChunk == [kind |-> "role", src |-> 0, index |-> 0, reason |-> "", tokens |-> 0]

\* the chunk that carries the delta at position n of the input
DeltaChunk(ev, n) ==
    [kind |-> ev.type, src |-> n, index |-> ev.index, reason |-> "", tokens |-> 0]

\* a bridge that always finishes with 'stop'
FinishReason_AlwaysStop(toolCalls) == "stop"

FinishReason(toolCalls) == IF toolCalls THEN "tool_calls" ELSE "stop"

FinishChunk(toolCalls) ==
    [kind |-> "finish", src |-> 0, index |-> 0, reason |-> FinishReason(toolCalls),
     tokens |-> 0]

\* the final usage accounting chunk, for the usage event at position n
UsageChunk(tokens, n) ==
    [kind |-> "usage", src |-> n, index |-> 0, reason |-> "", tokens |-> tokens]

\* what the bridge emits on completion
Completion(b, usageAt) ==
    <<FinishChunk(b.toolCalls)>> \o
        (IF b.usage # 0 THEN <<UsageChunk(b.usage, usageAt)>> ELSE <<>>)

BridgeInit ==
    /\ RotatorAtRest
    /\ StreamAtRest
    /\ bridgeIn = <<>>
    /\ bridgeOut = <<>>
    /\ bridge = [phase |-> "new", toolCalls |-> FALSE, usage |-> 0]
    /\ PoolAtRest
    /\ PersistAtRest
    /\ HandlerAtRest

\* the bridge starts: the first chunk declares the assistant role
BridgeStart ==
    /\ bridge.phase = "new"
    /\ bridgeOut' = Append(bridgeOut, RoleChunk)
    /\ bridge' = [bridge EXCEPT !.phase = "open"]
    /\ UNCHANGED bridgeIn
    /\ UNCHANGED nonBridge

\* a content or tool-call delta arrives: it is emitted at once
BridgeDelta ==
    /\ bridge.phase = "open"
    /\ bridge.usage = 0
    /\ Len(bridgeIn) < MaxEvents
    /\ \E ev \in DeltaEvents :
          /\ bridgeIn' = Append(bridgeIn, ev)
          /\ bridgeOut' = Append(bridgeOut, DeltaChunk(ev, Len(bridgeIn')))
          /\ bridge' = [bridge EXCEPT !.toolCalls = @ \/ ev.type = "tool"]
    /\ UNCHANGED nonBridge

\* the terminal usage event arrives: the usage data is kept for the end
BridgeUsage ==
    /\ bridge.phase = "open"
    /\ bridge.usage = 0
    /\ Len(bridgeIn) < MaxEvents
    /\ bridgeIn' = Append(bridgeIn, UsageEvent)
    /\ bridge' = [bridge EXCEPT !.usage = UsageEvent.tokens]
    /\ UNCHANGED bridgeOut
    /\ UNCHANGED nonBridge

\* the source sequence completes: finish-reason chunk, then the usage chunk
BridgeFlush ==
    /\ bridge.phase = "open"
    /\ bridgeOut' = bridgeOut \o Completion(bridge, Len(bridgeIn))
    /\ bridge' = [bridge EXCEPT !.phase = "closed"]
    /\ UNCHANGED bridgeIn
    /\ UNCHANGED nonBridge

BridgeNext ==
    \/ BridgeStart
    \/ BridgeDelta
    \/ BridgeUsage
    \/ BridgeFlush

BridgeSpec == BridgeInit /\ [][BridgeNext]_vars

(***************************************************************************)
(* The client pool: round robin over the clients, skipping the ones that   *)
(* were invalidated less than an hour ago.                                 *)
(***************************************************************************)
oneHour == 60 * 60 * 1000
PoolTickMs == oneHour
PoolEndTime == StartTime + MaxPoolTicks * PoolTickMs

\* a cursor that moves two places
Advance_Two(idx, n) == (idx + 2) % n

\* currentIndex = (currentIndex + 1) % clients.length
Advance(idx, n) == (idx + 1) % n

\* a test that lets every client through
StillInvalid_Never(ts, t) == FALSE

\* the client has an invalidation timestamp and the hour has not passed
StillInvalid(ts, t) == ts # 0 /\ ~(t - ts > oneHour)

\* a re-enabling that already happens at the hour
ReEnabled_AtTheHour(ts, t) == ts # 0 /\ t - ts >= oneHour

\* the client has an invalidation timestamp and the hour has passed
ReEnabled(ts, t) == ts # 0 /\ t - ts > oneHour

\* a loop that gives up one client early
MayRetry_OneShort(tries, n) == tries < n - 1

\* while (!client && attempts < maxAttempts), for a client that was skipped
MayRetry(tries, n) == tries < n

\* the do-while loop of getNextClient, entered with the cursor at idx
RECURSIVE NextClientLoop(_, _, _, _, _)
NextClientLoop(n, idx, inv, t, tries) ==
    LET clientIndex == idx
        moved == Advance(idx, n)
        tried == tries + 1
        ts == inv[clientIndex]
        inv2 == IF ReEnabled(ts, t) THEN [inv EXCEPT ![clientIndex] = 0] ELSE inv
    IN  IF StillInvalid(ts, t) /\ MayRetry(tried, n)
        THEN NextClientLoop(n, moved, inv2, t, tried)
        ELSE [client |-> IF StillInvalid(ts, t) THEN NoClient ELSE clientIndex,
              currentIndex |-> moved, inv |-> inv2, attempts |-> tried]

\* a callback that stamps the client again
markInvalid_Overwrite(inv, clientIndex, t) == [inv EXCEPT ![clientIndex] = t]

\* onInvalidClientCallback
markInvalid(inv, clientIndex, t) ==
    IF inv[clientIndex] = 0 THEN [inv EXCEPT ![clientIndex] = t] ELSE inv

PoolInit ==
    /\ RotatorAtRest
    /\ StreamAtRest
    /\ BridgeAtRest
    /\ PoolAtRest
    /\ PersistAtRest
    /\ HandlerAtRest

\* the clock of the pool
PoolTick ==
    /\ now < PoolEndTime
    /\ now' = now + PoolTickMs
    /\ UNCHANGED <<keys, keyStatus, tierCooldownMs, hasKv, kvDoc, perKeyCooldownSeconds, lastOp>>
    /\ UNCHANGED <<rotVars, streamVars, bridgeVars, poolVars, persistVars, reqVars>>

\* a pool that is built again on every call
initializedClients_Again(cl, n) ==
    IF n = 0 THEN cl ELSE [j \in 1..n |-> j - 1]

\* the pool after initializeClientPool with n credentials in the environment:
\* an initialised pool is kept, and without credentials the call throws
initializedClients(cl, n) ==
    IF Len(cl) > 0 \/ n = 0 THEN cl ELSE [j \in 1..n |-> j - 1]

\* what getClientStatuses returns (invalidatedAt is 0 where the map has no entry)
getClientStatuses(cl, inv) ==
    [m \in 1..Len(cl) |->
        [index |-> cl[m], isValid |-> inv[cl[m]] = 0, invalidatedAt |-> inv[cl[m]]]]

\* initializeClientPool with n credentials in the environment
InitializeClientPool ==
    /\ \E n \in 0..PoolSize : clients' = initializedClients(clients, n)
    /\ poolOp' = [op |-> "init", client |-> NoClient, attempts |-> 0, tag |-> 1 - poolOp.tag]
    /\ UNCHANGED <<currentIndex, invalidClientTimestamps>>
    /\ UNCHANGED nonPool

\* getNextClient
GetNextClient ==
    /\ IF Len(clients) = 0
       THEN /\ poolOp' = [op |-> "next", client |-> NoClient, attempts |-> 0,
                          tag |-> 1 - poolOp.tag]
            /\ UNCHANGED <<currentIndex, invalidClientTimestamps>>
       ELSE LET r == NextClientLoop(Len(clients), currentIndex, invalidClientTimestamps, now, 0)
            IN  /\ currentIndex' = r.currentIndex
                /\ invalidClientTimestamps' = r.inv
                /\ poolOp' = [op |-> "next", client |-> r.client, attempts |-> r.attempts,
                              tag |-> 1 - poolOp.tag]
    /\ UNCHANGED clients
    /\ UNCHANGED nonPool

\* a client reports itself invalid through its callback
MarkInvalid ==
    /\ \E j \in 0..(Len(clients) - 1) :
          /\ invalidClientTimestamps' = markInvalid(invalidClientTimestamps, j, now)
          /\ poolOp' = [op |-> "mark", client |-> j, attempts |-> 0, tag |-> 1 - poolOp.tag]
    /\ UNCHANGED <<clients, currentIndex>>
    /\ UNCHANGED nonPool

\* GET /admin/clients: initializeClientPool, then getClientStatuses; the route
\* answers 500 when the pool cannot be initialised
GetAdminClients ==
    /\ \E n \in 0..PoolSize : clients' = initializedClients(clients, n)
    /\ poolOp' = [op |-> "status", client |-> NoClient, attempts |-> 0,
                  tag |-> 1 - poolOp.tag,
                  statuses |-> getClientStatuses(clients', invalidClientTimestamps)]
    /\ UNCHANGED <<currentIndex, invalidClientTimestamps>>
    /\ UNCHANGED nonPool

PoolNext ==
    \/ PoolTick
    \/ InitializeClientPool
    \/ GetNextClient
    \/ MarkInvalid
    \/ GetAdminClients

PoolSpec == PoolInit /\ [][PoolNext]_vars

(***************************************************************************)
(* KeyManager.setKeys (key-manager.ts:40-51) on a manager in use: the      *)
(* list passed may repeat keys and may leave out configured ones.          *)
(***************************************************************************)
\* the longest list passed to setKeys: long enough to repeat a key and drop another
MaxListLen == NumKeys

KeyLists == UNION {[1..n -> KeyUniverse] : n \in 0..MaxListLen}

\* Array.from(new Set(keys)): the first occurrence of each element, in order
RECURSIVE Distinct(_)
Distinct(ks) ==
    IF ks = <<>> THEN <<>>
    ELSE LET front == Distinct(SubSeq(ks, 1, Len(ks) - 1))
             last == ks[Len(ks)]
         IN  IF last \in Range(front) THEN front ELSE Append(front, last)

\* a setKeys that gives every key of the list a fresh record
setKeysStatus_Fresh(st, ks) ==
    [x \in DOMAIN st |-> IF x \in Range(ks) THEN EmptyRec ELSE NoRec]

\* the two loops of setKeys over the status map
setKeysStatus(st, ks) ==
    [x \in DOMAIN st |->
        IF x \in Range(ks)
        THEN IF st[x].present THEN st[x] ELSE EmptyRec
        ELSE NoRec]

\* a KeyManager with no store bound
ConfigInit ==
    /\ Constructed(FALSE)
    /\ perKeyCooldownSeconds = <<>>
    /\ StreamAtRest
    /\ BridgeAtRest
    /\ PoolAtRest
    /\ PersistAtRest
    /\ HandlerAtRest

\* a direct call of KeyManager.setKeys; it does not save the state
SetKeysCall ==
    /\ Quiet
    /\ \E ks \in KeyLists :
          /\ keys' = Distinct(ks)
          /\ keyStatus' = setKeysStatus(keyStatus, keys')
          /\ lastOp' = [op |-> "set", key |-> NoKey, model |-> NoModel, cooldown |-> <<>>,
                        at |-> now, list |-> ks]
    /\ UNCHANGED <<tierCooldownMs, hasKv, kvDoc, now, perKeyCooldownSeconds>>
    /\ UNCHANGED rotVars
    /\ UNCHANGED extVars

ConfigNext ==
    \/ Tick
    \/ MarkKeyExhaustedCall
    \/ SetKeysCall

ConfigSpec == ConfigInit /\ [][ConfigNext]_vars

(***************************************************************************)
(* KeyManager and its store (key-manager.ts:117-189): the load started by  *)
(* the constructor resolves at some later point, and a write to the store  *)
(* may fail.                                                               *)
(***************************************************************************)
\* a value under kvKey that JSON.parse rejects
Unparsable == [present |-> FALSE, keys |-> <<>>,
               keyStatus |-> [x \in KeyUniverse |-> NoRec], savedAt |-> 0 - 1]

\* a record an earlier process saved: a cooldown that ends one tick after the start
PriorRec == [present |-> TRUE, exhaustedUntil |-> StartTime + TickMs,
             lastExhaustedModel |-> MODEL_TIERS[1]]

\* what an earlier process may have left in the store
PriorDocs ==
    {NoDoc, Unparsable} \cup
    {[present |-> TRUE, keys |-> ks,
      keyStatus |-> [x \in KeyUniverse |-> IF x \in marked THEN PriorRec ELSE NoRec],
      savedAt |-> 0] :
        ks \in {<<>>, <<KeyName[NumKeys]>>},
        marked \in {{}, {KeyName[1]}, {KeyName[NumKeys]}}}

\* how loadState ends, given whether kv.get resolved
LoadOutcome(readOk, doc) ==
    IF ~readOk THEN "failed"
    ELSE IF doc = Unparsable THEN "garbage"
    ELSE IF ~doc.present THEN "nothing"
    ELSE "loaded"

\* a load that takes the keys of the status map for configured keys
loadedKeys_FromStatus(ks, doc) ==
    Distinct(ks \o doc.keys \o
             SelectSeq(KeyName, LAMBDA x : x \in KeyUniverse /\ doc.keyStatus[x].present))

\* key-manager.ts:177-179
loadedKeys(ks, doc) ==
    IF Len(doc.keys) > 0 THEN Distinct(ks \o doc.keys) ELSE ks

\* key-manager.ts:180-184
loadedStatus(st, doc) ==
    [x \in DOMAIN st |-> IF doc.keyStatus[x].present THEN doc.keyStatus[x] ELSE st[x]]

getTotalKeysCount(ks) == Len(ks)

\* a count that takes every key for available
getAvailableKeysCount_All(ks, st, t) == Len(ks)

getAvailableKeysCount(ks, st, t) == Len(AvailableList(ks, st, t))

\* a saveState whose failure undoes the change
afterSave_RollsBack(before, after, putOk) == IF putOk THEN after ELSE before

\* the in-memory status after saveState: its catch block undoes nothing
afterSave(before, after, putOk) == after

\* loadState as the constructor leaves it: returned at once when no store is
\* bound, else suspended in kv.get
pendingLoad(kv, doc) ==
    IF kv THEN [state |-> "pending", doc |-> doc] ELSE [state |-> "unbound", doc |-> NoDoc]

\* what a kv.get issued earlier can resolve to: the value at the time it was
\* issued, or the value written since
ReadValues(issued, current) == {issued, current}

StoreInit ==
    /\ \E kv \in BOOLEAN : ConstructedWith(kv, 0..NumKeys, PriorDocs)
    /\ perKeyCooldownSeconds = <<>>
    /\ StreamAtRest
    /\ BridgeAtRest
    /\ PoolAtRest
    /\ kmLoad = pendingLoad(hasKv, kvDoc)
    /\ usage = <<>>
    /\ usageDoc = NoUsageDoc
    /\ usageLoad = NoUsageLoad
    /\ usageOp = NoUsageOp
    /\ peer = NoPeer
    /\ disk = NoDisk
    /\ HandlerAtRest

\* the load started by the constructor resolves, while no synchronous stretch
\* of a call runs
LoadStateResolves ==
    /\ kmLoad.state = "pending"
    /\ Suspended
    /\ \E readOk \in BOOLEAN, doc \in ReadValues(kmLoad.doc, kvDoc) :
          /\ kmLoad' = [state |-> LoadOutcome(readOk, doc), doc |-> NoDoc]
          /\ IF kmLoad'.state = "loaded"
             THEN /\ keys' = loadedKeys(keys, doc)
                  /\ keyStatus' = loadedStatus(keyStatus, doc)
             ELSE UNCHANGED <<keys, keyStatus>>
    /\ UNCHANGED <<tierCooldownMs, hasKv, kvDoc, now, perKeyCooldownSeconds, lastOp>>
    /\ UNCHANGED rotVars
    /\ UNCHANGED <<streamVars, bridgeVars, poolVars, reqVars>>
    /\ UNCHANGED <<usage, usageDoc, usageLoad, usageOp, peer, disk>>

\* markKeyExhausted of the first key with a store whose write may fail
MarkKeyExhaustedStore ==
    /\ Quiet
    /\ \E x \in {KeyName[1]}, c \in CooldownOptions, putOk \in BOOLEAN :
          /\ keys' = markedKeys(keys, x)
          /\ keyStatus' = afterSave(keyStatus,
                                     markedStatus(keyStatus, x, NoModel, c, tierCooldownMs, now),
                                     putOk)
          /\ kvDoc' = IF putOk THEN savedDoc(keys', keyStatus', now) ELSE kvDoc
          /\ lastOp' = [op |-> "mark", key |-> x, model |-> NoModel, cooldown |-> c, at |-> now,
                        list |-> <<>>]
    /\ UNCHANGED <<tierCooldownMs, hasKv, now, perKeyCooldownSeconds>>
    /\ UNCHANGED rotVars
    /\ UNCHANGED extVars

StoreNext ==
    \/ LoadStateResolves
    \/ MarkKeyExhaustedStore

StoreSpec == StoreInit /\ [][StoreNext]_vars

(***************************************************************************)
(* UsageTracker (usage-tracker.ts), built over the binding the KeyManager  *)
(* uses.  A timestamp is <<n>>, or <<>> when it is not a number.           *)
(***************************************************************************)
\* options.retentionDays; the default of 30 days is more milliseconds than the
\* integers of the checker hold
RetentionDays == 1
retentionMs == RetentionDays * 24 * 60 * 60 * 1000
UsageTickMs == retentionMs
UsageEndTime == StartTime + MaxUsageTicks * UsageTickMs
InputTokens == 2
OutputTokens == 3
NO_KEY == "<no-key>"

UsageRec(apiKey, model, ts) ==
    [apiKey |-> apiKey, model |-> model, inputTokens |-> InputTokens,
     outputTokens |-> OutputTokens, timestamp |-> ts]

\* the arguments of recordUsage: with or without a key, for either model,
\* with or without a timestamp of its own
RecordInputs ==
    { UsageRec(KeyName[1], MODEL_TIERS[1], <<>>),
      UsageRec(NoKey, MODEL_TIERS[2], <<>>),
      UsageRec(KeyName[1], MODEL_TIERS[2], <<StartTime>>) }

\* what an earlier process may have left under the usage key
PriorUsageDocs ==
    { NoUsageDoc,
      [kind |-> "garbage", recs |-> <<>>],
      [kind |-> "object", recs |-> <<>>],
      [kind |-> "array",
       recs |-> << UsageRec(KeyName[1], MODEL_TIERS[1], <<StartTime>>),
                   UsageRec(NoKey, MODEL_TIERS[2], <<>>),
                   UsageRec(KeyName[1], MODEL_TIERS[2], <<StartTime + UsageTickMs>>) >>] }

\* a filter that keeps every record
InWindow_KeepsAll(u, t) == TRUE

\* the filter of load and pruneAndSave (usage-tracker.ts:76, 89)
InWindow(u, t) == u.timestamp # <<>> /\ u.timestamp[1] >= t - retentionMs

pruned(log, t) == SelectSeq(log, LAMBDA u : InWindow(u, t))

\* how load ends, given whether kv.get resolved
UsageLoadOutcome(readOk, doc) ==
    IF ~readOk THEN "failed"
    ELSE IF doc.kind = "absent" THEN "nothing"
    ELSE IF doc.kind = "garbage" THEN "garbage"
    ELSE IF doc.kind = "object" THEN "notarray"
    ELSE "loaded"

\* a load that leaves the log alone unless it parsed an array
loadedUsage_KeepsLog(log, outcome, doc, t) ==
    IF outcome = "loaded" THEN pruned(doc.recs, t) ELSE log

\* the log after load (usage-tracker.ts:57-83)
loadedUsage(log, outcome, doc, t) ==
    IF outcome = "loaded" THEN pruned(doc.recs, t) ELSE <<>>

\* the record recordUsage builds from its argument
builtRecord(arg, t) ==
    [arg EXCEPT !.timestamp = IF arg.timestamp = <<>> THEN <<t>> ELSE arg.timestamp]

\* u.apiKey ?? "<no-key>"
GroupKey(u) == IF u.apiKey = NoKey THEN NO_KEY ELSE u.apiKey

\* Math.max(lastUsed || 0, timestamp)
MaxOf(a, b) == IF a >= b THEN a ELSE b

\* the loop of getKeySummaries over the records of one key
RECURSIVE Summed(_, _)
Summed(grp, acc) ==
    IF grp = <<>> THEN acc
    ELSE Summed(Tail(grp),
                [acc EXCEPT !.totalInputTokens = @ + Head(grp).inputTokens,
                            !.totalOutputTokens = @ + Head(grp).outputTokens,
                            !.calls = @ + 1,
                            !.lastUsed = MaxOf(@, Head(grp).timestamp[1])])

NewSummary(g) ==
    [key |-> g, totalInputTokens |-> 0, totalOutputTokens |-> 0, calls |-> 0, lastUsed |-> 0]

\* Object.values(map): one summary per key, in order of first appearance
Summaries(log) ==
    LET order == Distinct([n \in 1..Len(log) |-> GroupKey(log[n])])
    IN  [n \in 1..Len(order) |->
            Summed(SelectSeq(log, LAMBDA u : GroupKey(u) = order[n]), NewSummary(order[n]))]

\* a comparator that puts the least used key first
Before_Ascending(a, b) == a.calls <= b.calls

\* (a, b) => b.calls - a.calls: a stays before b unless b has more calls
Before(a, b) == a.calls >= b.calls

\* Array.prototype.sort, which is stable
RECURSIVE Inserted(_, _)
Inserted(sorted, x) ==
    IF sorted = <<>> THEN <<x>>
    ELSE IF Before(sorted[Len(sorted)], x) THEN Append(sorted, x)
    ELSE Append(Inserted(SubSeq(sorted, 1, Len(sorted) - 1), x), sorted[Len(sorted)])

RECURSIVE Sorted(_)
Sorted(seq) ==
    IF seq = <<>> THEN <<>>
    ELSE Inserted(Sorted(SubSeq(seq, 1, Len(seq) - 1)), seq[Len(seq)])

getKeySummaries(log) == Sorted(Summaries(log))

\* the map of getModelUsageTotals; a model without records has no entry
getModelUsageTotals(log) ==
    [m \in {log[n].model : n \in 1..Len(log)} |->
        LET total == Summed(SelectSeq(log, LAMBDA u : u.model = m), NewSummary(m))
        IN  [inputTokens |-> total.totalInputTokens,
             outputTokens |-> total.totalOutputTokens,
             calls |-> total.calls]]

UsageInit ==
    /\ ConstructedWith(TRUE, {NumKeys}, {NoDoc, Unparsable})
    /\ perKeyCooldownSeconds = <<>>
    /\ StreamAtRest
    /\ BridgeAtRest
    /\ PoolAtRest
    /\ kmLoad = pendingLoad(hasKv, kvDoc)
    /\ usage = <<>>
    /\ usageDoc \in PriorUsageDocs
    /\ usageLoad = NoUsageLoad
    /\ usageOp = NoUsageOp
    /\ peer = NoPeer
    /\ disk = NoDisk
    /\ HandlerAtRest

\* the clock of the usage log
UsageTick ==
    /\ now < UsageEndTime
    /\ now' = now + UsageTickMs
    /\ UNCHANGED <<keys, keyStatus, tierCooldownMs, hasKv, kvDoc, perKeyCooldownSeconds, lastOp>>
    /\ UNCHANGED rotVars
    /\ UNCHANGED <<streamVars, bridgeVars, poolVars, persistVars, reqVars>>

\* new UsageTracker(...): load runs up to its first await
ConstructTracker ==
    /\ usageLoad.state = "none"
    /\ usage' = <<>>
    /\ usageLoad' = IF hasKv THEN [state |-> "pending", doc |-> usageDoc]
                             ELSE [state |-> "unbound", doc |-> NoUsageDoc]
    /\ usageOp' = [op |-> "construct", rec |-> <<>>]
    /\ UNCHANGED <<kmLoad, usageDoc, peer, disk>>
    /\ UNCHANGED <<ksVars, rotVars, streamVars, bridgeVars, poolVars, reqVars>>

\* the load started by the constructor resolves
UsageLoadResolves ==
    /\ usageLoad.state = "pending"
    /\ \E readOk \in BOOLEAN, doc \in ReadValues(usageLoad.doc, usageDoc) :
          /\ usageLoad' = [state |-> UsageLoadOutcome(readOk, doc), doc |-> NoUsageDoc]
          /\ usage' = loadedUsage(usage, usageLoad'.state, doc, now)
    /\ usageOp' = [op |-> "load", rec |-> <<>>]
    /\ UNCHANGED <<kmLoad, usageDoc, peer, disk>>
    /\ UNCHANGED <<ksVars, rotVars, streamVars, bridgeVars, poolVars, reqVars>>

\* recordUsage: push, prune, and a write the store takes
RecordUsage ==
    /\ usageLoad.state # "none"
    /\ Len(usage) < MaxLog
    /\ \E arg \in RecordInputs :
          /\ usage' = pruned(Append(usage, builtRecord(arg, now)), now)
          /\ usageDoc' = IF hasKv THEN [kind |-> "array", recs |-> usage'] ELSE usageDoc
          /\ usageOp' = [op |-> "record", rec |-> <<builtRecord(arg, now)>>]
    /\ UNCHANGED <<kmLoad, usageLoad, peer, disk>>
    /\ UNCHANGED <<ksVars, rotVars, streamVars, bridgeVars, poolVars, reqVars>>

UsageNext ==
    \/ UsageTick
    \/ ConstructTracker
    \/ UsageLoadResolves
    \/ RecordUsage
    \/ LoadStateResolves

UsageSpec == UsageInit /\ [][UsageNext]_vars

(***************************************************************************)
(* KeyManager.getStatusSnapshot and maskKey (key-manager.ts:148-208), on   *)
(* keys spelled as sequences of characters.                                *)
(***************************************************************************)
KeyChars == {"a", "b"}

\* the keys of up to MaxKeyLen characters
MaskKeys == UNION {[1..n -> KeyChars] : n \in 1..MaxKeyLen}

NO_KEY_CHARS == <<"<", "n", "o", "-", "k", "e", "y", ">">>

\* key.slice(-n)
sliceLast(s, n) == IF Len(s) <= n THEN s ELSE SubSeq(s, Len(s) - n + 1, Len(s))

\* key.slice(0, n)
sliceFirst(s, n) == IF Len(s) <= n THEN s ELSE SubSeq(s, 1, n)

maskKey(s) ==
    IF s = <<>> THEN NO_KEY_CHARS
    ELSE IF Len(s) <= 8 THEN <<s[1]>> \o <<"*", "*", "*">> \o sliceLast(s, 1)
    ELSE sliceFirst(s, 4) \o <<".", ".", ".">> \o sliceLast(s, 4)

\* this.keyStatus[k] || {}
recordOf(st, x) == IF x \in DOMAIN st /\ st[x].present THEN st[x] ELSE EmptyRec

getStatusSnapshot(ks, st, t) ==
    [total |-> getTotalKeysCount(ks),
     available |-> getAvailableKeysCount(ks, st, t),
     details |-> [n \in 1..Len(ks) |->
                    [key |-> maskKey(ks[n]),
                     available |-> KeyFilter(recordOf(st, ks[n]), t),
                     exhaustedUntil |-> recordOf(st, ks[n]).exhaustedUntil,
                     lastExhaustedModel |-> recordOf(st, ks[n]).lastExhaustedModel]]]

MaskInit ==
    /\ \E s \in MaskKeys : Provisioned(<<s>>, [x \in {s} |-> EmptyRec], TRUE, {NoDoc})
    /\ perKeyCooldownSeconds = <<>>
    /\ StreamAtRest
    /\ BridgeAtRest
    /\ PoolAtRest
    /\ PersistAtRest
    /\ HandlerAtRest

\* a call of getStatusSnapshot
GetStatusSnapshotCall ==
    /\ Quiet
    /\ lastOp' = [op |-> "snapshot", key |-> NoKey, model |-> NoModel, cooldown |-> <<>>,
                  at |-> now, list |-> <<getStatusSnapshot(keys, keyStatus, now)>>]
    /\ UNCHANGED <<keys, keyStatus, tierCooldownMs, hasKv, kvDoc, now, perKeyCooldownSeconds>>
    /\ UNCHANGED rotVars
    /\ UNCHANGED extVars

MaskNext == GetStatusSnapshotCall

MaskSpec == MaskInit /\ [][MaskNext]_vars

(***************************************************************************)
(* POST /chat/completions (routes/openai.ts:34-336): validation, then the  *)
(* client pool, a KeyManager and a KeyRotator built for the request, the   *)
(* next pool client, and the rotated call.                                 *)
(***************************************************************************)
HTTP_BAD_REQUEST == 400
HTTP_SERVER_ERROR == 500
HTTP_OK == 200

SwitchingValues == {"unset", "true", "false"}

\* a request as the handler sees it: the number of messages, the model, its
\* entry in geminiCliModels (known, supportsImages) and whether a message
\* carries an image_url part
Req(n, m, kn, img, sup) ==
    [messages |-> n, model |-> m, known |-> kn, hasImages |-> img, supportsImages |-> sup]

Requests ==
    { Req(1, MODEL_TIERS[1], TRUE, FALSE, TRUE),
      Req(1, MODEL_TIERS[2], TRUE, TRUE, TRUE),
      Req(0, MODEL_TIERS[1], TRUE, FALSE, TRUE),
      Req(1, "unknown-model", FALSE, FALSE, FALSE),
      Req(1, "text-only-model", TRUE, TRUE, FALSE) }

\* a validation without the image check
validationError_NoImageCheck(req) ==
    IF req.messages = 0 THEN HTTP_BAD_REQUEST
    ELSE IF ~req.known THEN HTTP_BAD_REQUEST
    ELSE 0

\* routes/openai.ts:96-125: the status of the validation failure, 0 when the
\* request passes
validationError(req) ==
    IF req.messages = 0 THEN HTTP_BAD_REQUEST
    ELSE IF ~req.known THEN HTTP_BAD_REQUEST
    ELSE IF req.hasImages /\ ~req.supportsImages THEN HTTP_BAD_REQUEST
    ELSE 0

\* the document of an earlier process that knew one more key
HandlerDocs ==
    {[present |-> TRUE, keys |-> <<KeyName[NumKeys]>>,
      keyStatus |-> [x \in KeyUniverse |-> NoRec], savedAt |-> 0]}

\* a worker with the given bindings that has handled no request
WorkerStarted(envs, docs) ==
    /\ Provisioned(<<>>, [x \in KeyUniverse |-> NoRec], TRUE, docs)
    /\ perKeyCooldownSeconds = <<>>
    /\ StreamAtRest
    /\ BridgeAtRest
    /\ PoolAtRest
    /\ PersistAtRest
    /\ env \in envs
    /\ request = NoRequest
    /\ response = 0

HandlerInit ==
    WorkerStarted([switching : {"unset"}, credentials : {0, PoolSize}, geminiKeys : {0, 1}],
                  {NoDoc})

\* the handler stops before the pool: nothing but the answer changes
Answered(status) ==
    /\ response' = status
    /\ UNCHANGED ksVars
    /\ UNCHANGED rotVars
    /\ UNCHANGED <<streamVars, bridgeVars, poolVars, persistVars>>

\* new KeyManager({kv, kvKey}), setKeys(GEMINI_KEYS), new KeyRotator(km), and,
\* when getNextClient returned a client, the call of streamContent /
\* generateContent for model m
RotatorBuilt(m, started) ==
    LET ks == [j \in 1..env.geminiKeys |-> KeyName[j]]
    IN  /\ keys' = ks
        /\ keyStatus' = setKeysStatus([x \in KeyUniverse |-> NoRec], ks)
        /\ kmLoad' = pendingLoad(hasKv, kvDoc)
        /\ perKeyCooldownSeconds' = <<>>
        /\ reqModel' = m
        /\ i' = startTier(m)
        /\ pc' = IF started THEN "tier" ELSE "idle"
        /\ availableKeys' = <<>>
        /\ k' = 0
        /\ triedKeys' = {}
        /\ key' = NoKey
        /\ result' = NoResult
        /\ lastErr' = NoErr
        /\ branch' = "none"
        /\ attempts' = 0
        /\ attempted' = {}
        /\ only429' = TRUE
        /\ snapshots' = <<>>
        /\ lastOp' = NoOp
        /\ UNCHANGED <<tierCooldownMs, hasKv, kvDoc, now>>

\* the handler runs from the parsed body to its answer
HandleRequest ==
    /\ pc \in {"idle", "done"}
    /\ \E req \in Requests :
          /\ request' = req
          /\ IF validationError(req) # 0
             THEN Answered(validationError(req))
             ELSE LET cl == initializedClients(clients, env.credentials)
                  IN  IF Len(cl) = 0
                      THEN Answered(HTTP_SERVER_ERROR)
                      ELSE LET r == NextClientLoop(Len(cl), currentIndex,
                                                   invalidClientTimestamps, now, 0)
                           IN  /\ clients' = cl
                               /\ currentIndex' = r.currentIndex
                               /\ invalidClientTimestamps' = r.inv
                               /\ poolOp' = [op |-> "next", client |-> r.client,
                                             attempts |-> r.attempts, tag |-> 1 - poolOp.tag]
                               /\ response' = IF r.client = NoClient THEN HTTP_SERVER_ERROR
                                              ELSE HTTP_OK
                               /\ IF env.geminiKeys > 0
                                  THEN RotatorBuilt(req.model, r.client # NoClient)
                                  ELSE /\ UNCHANGED ksVars
                                       /\ UNCHANGED rotVars
                                       /\ UNCHANGED kmLoad
                               /\ UNCHANGED <<usage, usageDoc, usageLoad, usageOp, peer, disk>>
                               /\ UNCHANGED <<streamVars, bridgeVars>>
    /\ UNCHANGED env

\* the provider call of the rotated request rejects
HandlerProviderFails == \E e \in StreamErrors : Caught(e)

HandlerNext ==
    \/ HandleRequest
    \/ MarkInvalid
    \/ LoadStateResolves
    \/ EnterTier
    \/ LoopStep
    \/ ProviderSucceeds
    \/ HandlerProviderFails
    \/ WaitDone

HandlerSpec == HandlerInit /\ [][HandlerNext]_vars

(***************************************************************************)
(* The same handler under each value of ENABLE_AUTO_MODEL_SWITCHING, with  *)
(* keys in GEMINI_KEYS and a store that knows one more key.                *)
(***************************************************************************)
SwitchInit ==
    WorkerStarted([switching : SwitchingValues, credentials : {PoolSize}, geminiKeys : {1}],
                  HandlerDocs)

SwitchNext ==
    \/ HandleRequest
    \/ LoadStateResolves
    \/ EnterTier
    \/ LoopStep
    \/ ProviderSucceeds
    \/ HandlerProviderFails
    \/ WaitDone

SwitchSpec == SwitchInit /\ [][SwitchNext]_vars

(***************************************************************************)
(* The queries of KeyManager (getNextAvailableKey, isKeyAvailable,         *)
(* getAvailableKeysCount, getTotalKeysCount, getStatusSnapshot) on a       *)
(* manager whose keys are marked while the clock moves.                    *)
(***************************************************************************)
\* the characters of the key names
KeyNameChars ==
    [j \in 1..Len(KeyName) |->
        <<"k", "e", "y", "-">> \o <<<<"1">>, <<"2">>, <<"3">>, <<"4">>>>[j]]

charsOf(x) == KeyNameChars[CHOOSE j \in 1..Len(KeyName) : KeyName[j] = x]

QueryInit ==
    /\ Constructed(FALSE)
    /\ perKeyCooldownSeconds = <<>>
    /\ StreamAtRest
    /\ BridgeAtRest
    /\ PoolAtRest
    /\ PersistAtRest
    /\ HandlerAtRest

\* getTotalKeysCount, getAvailableKeysCount, getStatusSnapshot and isKeyAvailable
\* of every key called one after the other; the snapshot is taken of the keys
\* and records spelled out in characters
QueryCall ==
    /\ Quiet
    /\ LET spelled == [n \in 1..Len(keys) |-> charsOf(keys[n])]
           records == [c \in {charsOf(x) : x \in DOMAIN keyStatus} |->
                         keyStatus[CHOOSE x \in DOMAIN keyStatus : charsOf(x) = c]]
       IN
       lastOp' = [op |-> "query", key |-> NoKey, model |-> NoModel, cooldown |-> <<>>,
                  at |-> now,
                  list |-> <<[total |-> getTotalKeysCount(keys),
                              available |-> getAvailableKeysCount(keys, keyStatus, now),
                              snapshot |-> getStatusSnapshot(spelled, records, now),
                              isAvailable |-> [x \in KeyUniverse |->
                                                  isKeyAvailable(keyStatus, x, now)]]>>]
    /\ UNCHANGED <<keys, keyStatus, tierCooldownMs, hasKv, kvDoc, now, perKeyCooldownSeconds>>
    /\ UNCHANGED rotVars
    /\ UNCHANGED extVars

QueryNext ==
    \/ Tick
    \/ MarkKeyExhaustedCall
    \/ GetNextAvailableKeyCall
    \/ QueryCall

QuerySpec == QueryInit /\ [][QueryNext]_vars

(***************************************************************************)
(* Two KeyManager instances bound to the same store key: each marks its    *)
(* own key, each has the load of its constructor pending.                  *)
(***************************************************************************)
\* the key the first instance marks and the key the second one marks
FirstKey == KeyName[1]
PeerKey == KeyName[NumKeys]

PeerInit ==
    /\ ConstructedWith(TRUE, {NumKeys}, {NoDoc})
    /\ perKeyCooldownSeconds = <<>>
    /\ StreamAtRest
    /\ BridgeAtRest
    /\ PoolAtRest
    /\ kmLoad = pendingLoad(hasKv, kvDoc)
    /\ usage = <<>>
    /\ usageDoc = NoUsageDoc
    /\ usageLoad = NoUsageLoad
    /\ usageOp = NoUsageOp
    /\ peer = [keys |-> keys, keyStatus |-> keyStatus, load |-> pendingLoad(hasKv, kvDoc)]
    /\ disk = NoDisk
    /\ HandlerAtRest

\* the load of the second instance resolves
PeerLoadResolves ==
    /\ peer.load.state = "pending"
    /\ \E readOk \in BOOLEAN, doc \in ReadValues(peer.load.doc, kvDoc) :
          LET outcome == LoadOutcome(readOk, doc)
          IN  peer' = [keys |-> IF outcome = "loaded" THEN loadedKeys(peer.keys, doc)
                                ELSE peer.keys,
                       keyStatus |-> IF outcome = "loaded"
                                     THEN loadedStatus(peer.keyStatus, doc)
                                     ELSE peer.keyStatus,
                       load |-> [state |-> outcome, doc |-> NoDoc]]
    /\ UNCHANGED <<kmLoad, usage, usageDoc, usageLoad, usageOp, disk>>
    /\ UNCHANGED <<ksVars, rotVars, streamVars, bridgeVars, poolVars, reqVars>>

\* markKeyExhausted on the second instance: saveState writes the whole
\* document from that instance's memory
PeerMarks ==
    /\ \E c \in CooldownOptions, putOk \in BOOLEAN :
          LET ks == markedKeys(peer.keys, PeerKey)
              st == markedStatus(peer.keyStatus, PeerKey, NoModel, c, tierCooldownMs, now)
          IN  /\ peer' = [peer EXCEPT !.keys = ks, !.keyStatus = st]
              /\ kvDoc' = IF putOk THEN savedDoc(ks, st, now) ELSE kvDoc
    /\ UNCHANGED <<keys, keyStatus, tierCooldownMs, hasKv, now, perKeyCooldownSeconds, lastOp>>
    /\ UNCHANGED <<kmLoad, usage, usageDoc, usageLoad, usageOp, disk>>
    /\ UNCHANGED <<rotVars, streamVars, bridgeVars, poolVars, reqVars>>

PeerNext ==
    \/ LoadStateResolves
    \/ MarkKeyExhaustedStore
    \/ PeerLoadResolves
    \/ PeerMarks

PeerSpec == PeerInit /\ [][PeerNext]_vars

(***************************************************************************)
(* The handler of a worker that starts again: the store holds the         *)
(* document its earlier process saved, with an unexpired cooldown of the   *)
(* first key.                                                              *)
(***************************************************************************)
RestartDocs ==
    {[present |-> TRUE, keys |-> <<KeyName[1]>>,
      keyStatus |-> [x \in KeyUniverse |-> IF x = KeyName[1] THEN PriorRec ELSE NoRec],
      savedAt |-> 0]}

RestartInit ==
    WorkerStarted([switching : {"unset"}, credentials : {PoolSize}, geminiKeys : {1}],
                  RestartDocs)

RestartNext ==
    \/ HandleRequest
    \/ LoadStateResolves
    \/ EnterTier
    \/ LoopStep
    \/ ProviderSucceeds
    \/ HandlerProviderFails
    \/ WaitDone

RestartSpec == RestartInit /\ [][RestartNext]_vars

(***************************************************************************)
(* The Rotator on a KeyManager with one key more than a tier snapshot      *)
(* holds: the last key is cooling down when the call starts (its record    *)
(* was loaded from the store) and becomes available one tick later.        *)
(***************************************************************************)
WideKeys == [j \in 1..(NumKeys + 1) |-> KeyName[j]]

SnapshotInit ==
    /\ Provisioned(WideKeys,
                   [x \in Range(WideKeys) |->
                       IF x = WideKeys[Len(WideKeys)] THEN PriorRec ELSE EmptyRec],
                   FALSE, {NoDoc})
    /\ perKeyCooldownSeconds = <<>>
    /\ StreamAtRest
    /\ BridgeAtRest
    /\ PoolAtRest
    /\ PersistAtRest
    /\ HandlerAtRest

SnapshotNext ==
    \/ Tick
    \/ StartCall
    \/ EnterTier
    \/ LoopStep
    \/ ProviderSucceeds
    \/ HandlerProviderFails
    \/ WaitDone

SnapshotSpec == SnapshotInit /\ [][SnapshotNext]_vars

(***************************************************************************)
(* The same Rotator under every cooldown setting, each provider call and   *)
(* each backoff timer ending and the call going on whenever it can: the    *)
(* provider promise settles, the timer fires, and the synchronous code     *)
(* between two awaits runs.                                                *)
(***************************************************************************)
TermKeys == [j \in 1..NumKeys |-> KeyName[j]]

TermInit ==
    /\ Provisioned(TermKeys,
                   [x \in Range(TermKeys) |->
                       IF x = TermKeys[Len(TermKeys)] THEN PriorRec ELSE EmptyRec],
                   FALSE, {NoDoc})
    /\ perKeyCooldownSeconds \in CooldownOptions
    /\ StreamAtRest
    /\ BridgeAtRest
    /\ PoolAtRest
    /\ PersistAtRest
    /\ HandlerAtRest

CallGoesOn ==
    /\ WF_vars(EnterTier)
    /\ WF_vars(LoopStep)
    /\ WF_vars(ProviderSucceeds \/ HandlerProviderFails)
    /\ WF_vars(WaitDone)

TermSpec == TermInit /\ [][SnapshotNext]_vars /\ CallGoesOn

(***************************************************************************)
(* saveJsonAtomic (persistence.ts:21-31) called by several tasks for the   *)
(* same filePath.  The file system maps the names filePath and             *)
(* filePath.tmp to files (0: no such file); a file holds the parts written *)
(* to it.  fs.writeFile opens its path for writing (creating the file or   *)
(* truncating it), writes the string part by part at the position of its   *)
(* own descriptor and closes; fs.promises.rename moves the file of the     *)
(* temporary name to filePath and fails when the name is gone.             *)
(***************************************************************************)
MaxSavers == 2
MaxParts == 2

Savers == 1..MaxSavers
PriorFile == 1
FileOf(s) == s + 1
Files == 1..(MaxSavers + 1)

\* part n of the JSON text of save s; save 0 is the one that wrote filePath earlier
Part(s, n) == [doc |-> s, part |-> n]
Hole == [doc |-> 0 - 1, part |-> 0]

\* JSON.stringify(data, null, 2) of save s
DocOf(s) == [n \in 1..MaxParts |-> Part(s, n)]

NoSave == [pc |-> "start", fd |-> 0, pos |-> 0]

\* a write of cell c at position n (0-based) of a file holding cs
writtenAt(cs, n, c) ==
    [m \in 1..(IF Len(cs) > n + 1 THEN Len(cs) ELSE n + 1) |->
        IF m = n + 1 THEN c
        ELSE IF m <= Len(cs) THEN cs[m]
        ELSE Hole]

SaveInit ==
    /\ Provisioned(TermKeys, [x \in Range(TermKeys) |-> EmptyRec], FALSE, {NoDoc})
    /\ perKeyCooldownSeconds = <<>>
    /\ StreamAtRest
    /\ BridgeAtRest
    /\ PoolAtRest
    /\ kmLoad = NoLoad
    /\ usage = <<>>
    /\ usageDoc = NoUsageDoc
    /\ usageLoad = NoUsageLoad
    /\ usageOp = NoUsageOp
    /\ peer = NoPeer
    /\ \E t \in {0, PriorFile} :
          disk = [target |-> t, tmp |-> 0,
                  content |-> [f \in Files |-> IF f = PriorFile /\ t = PriorFile
                                               THEN DocOf(0) ELSE <<>>],
                  saver |-> [s \in Savers |-> NoSave]]
    /\ HandlerAtRest

SaveLeavesAlone ==
    /\ UNCHANGED <<ksVars, rotVars, streamVars, bridgeVars, poolVars, reqVars>>
    /\ UNCHANGED <<kmLoad, usage, usageDoc, usageLoad, usageOp, peer>>

\* await ensureDirForFile(filePath)
EnsureDir(s) ==
    /\ disk.saver[s].pc = "start"
    /\ disk' = [disk EXCEPT !.saver[s].pc = "open"]
    /\ SaveLeavesAlone

\* writeFile opens filePath.tmp: the file of that name is truncated, or created
OpenTmp(s) ==
    /\ disk.saver[s].pc = "open"
    /\ LET f == IF disk.tmp = 0 THEN FileOf(s) ELSE disk.tmp
       IN  disk' = [disk EXCEPT !.tmp = f,
                                !.content[f] = <<>>,
                                !.saver[s] = [pc |-> "write", fd |-> f, pos |-> 0]]
    /\ SaveLeavesAlone

\* writeFile writes the next part through its descriptor; it closes after the last
WritePart(s) ==
    /\ disk.saver[s].pc = "write"
    /\ LET sv == disk.saver[s]
       IN  disk' = [disk EXCEPT
                      !.content[sv.fd] = writtenAt(@, sv.pos, Part(s, sv.pos + 1)),
                      !.saver[s].pos = sv.pos + 1,
                      !.saver[s].pc = IF sv.pos + 1 = MaxParts THEN "rename" ELSE "write"]
    /\ SaveLeavesAlone

\* fs.promises.rename(tmp, filePath); ENOENT is logged and rethrown
Rename(s) ==
    /\ disk.saver[s].pc = "rename"
    /\ IF disk.tmp = 0
       THEN disk' = [disk EXCEPT !.saver[s].pc = "failed"]
       ELSE disk' = [disk EXCEPT !.target = disk.tmp, !.tmp = 0, !.saver[s].pc = "saved"]
    /\ SaveLeavesAlone

SaveNext ==
    \/ \E s \in Savers : EnsureDir(s)
    \/ \E s \in Savers : OpenTmp(s)
    \/ \E s \in Savers : WritePart(s)
    \/ \E s \in Savers : Rename(s)

SaveSpec == SaveInit /\ [][SaveNext]_vars

(***************************************************************************)
(* Vocabulary of the properties.                                           *)
(***************************************************************************)
\* the cooldown of key x has elapsed at time t
Elapsed(x, t) ==
    \/ ~keyStatus[x].present
    \/ keyStatus[x].exhaustedUntil = 0
    \/ keyStatus[x].exhaustedUntil <= t

\* the HTTP status an error carries, 0 when it carries none
HttpStatus(e) ==
    IF e.status # 0 THEN e.status
    ELSE IF e.response_status # 0 THEN e.response_status
    ELSE IF e.statusCode # 0 THEN e.statusCode
    ELSE e.code

MentionsRateLimit(e) ==
    \/ includes(toLowerCase(e.message), RATE_LIMIT)
    \/ includes(toLowerCase(e.message), QUOTA)
    \/ includes(toLowerCase(e.message), EXHAUST)

\* recoverable as the specification words it
RateLimited(e) == HttpStatus(e) \in {429, 403} \/ MentionsRateLimit(e)
TimedOut(e) == HttpStatus(e) = 524 \/ includes(e.message, RE_524)
Unrecoverable(e) == ~RateLimited(e) /\ ~TimedOut(e)

\* this step is the rejection of the provider call in progress
ProviderFailed == pc = "calling" /\ pc' # "calling" /\ result'.kind # "ok"

\* the cooldown a mark with option c lasts, in milliseconds
CooldownOf(c) == (IF c = <<>> THEN 3600 ELSE c[1]) * 1000

(***************************************************************************)
(* C1: getNextAvailableKey returns either the sentinel or a key of the     *)
(* working set whose cooldown has elapsed (no record, no exhaustedUntil,   *)
(* or exhaustedUntil <= now); it returns the sentinel only when no key of  *)
(* the working set is available.                                           *)
(***************************************************************************)
C1_NextAvailableIsAvailable ==
    [][(lastOp'.op = "next" /\ now' = now /\ keyStatus' = keyStatus /\ keys' = keys) =>
          LET r == lastOp'.key
          IN  /\ r # NoKey => (r \in Range(keys) /\ Elapsed(r, now))
              /\ r = NoKey => \A x \in Range(keys) : ~Elapsed(x, now)]_vars

\* a key was returned while another key of the working set was in cooldown
C1_Witness ==
    /\ lastOp.op = "next"
    /\ lastOp.key # NoKey
    /\ \E x \in Range(keys) : ~Elapsed(x, now)

C3_FatalPropagatesAtOnce ==
    [][/\ (ProviderFailed /\ Unrecoverable(lastErr')) =>
            /\ pc' = "done"
            /\ result'.kind = "thrown"
            /\ result'.err = lastErr'
            /\ keyStatus' = keyStatus
            /\ attempts' = attempts
       /\ result.kind = "thrown" =>
            /\ attempts' = attempts
            /\ attempted' = attempted
            /\ result' = result]_vars

\* the call ended with the provider's error while an untried key was available
C3_Witness ==
    /\ pc = "done"
    /\ result.kind = "thrown"
    /\ Unrecoverable(result.err)
    /\ \E x \in Range(keys) : Elapsed(x, now) /\ x \notin triedKeys

\* the tier a request for model m starts at
StartOf(m) == IF m = "gemini-2.5-flash" THEN 1 ELSE 0

\* number of provider attempts of this call made in tier t
AttemptsAt(t) == Cardinality({a \in attempted : a[2] = t})

RECURSIVE SumSizes(_)
SumSizes(seq) == IF seq = <<>> THEN 0 ELSE Head(seq).size + SumSizes(Tail(seq))

\* this step records the cooldown of the failing key and goes on to the backoff
MarkedAndContinues ==
    /\ pc' = "wait"
    /\ result'.kind = "none"
    /\ attempts' = attempts
    /\ key \in Range(keys')
    /\ keyStatus'[key] = [present |-> TRUE,
                          exhaustedUntil |-> now + CooldownOf(perKeyCooldownSeconds),
                          lastExhaustedModel |-> MODEL_TIERS[i + 1]]

(***************************************************************************)
(* C4 as stated: when the requested model is the top tier and every        *)
(* credential available for the top tier fails with HTTP 429, the call     *)
(* falls through to the next tier and succeeds there, the provider         *)
(* succeeding for the next tier's model.                                   *)
(***************************************************************************)
C4_FallsThroughAndSucceeds ==
    ( /\ pc = "done"
      /\ reqModel = MODEL_TIERS[1]
      /\ Len(snapshots) >= 1
      /\ snapshots[1].size > 0
      /\ AttemptsAt(0) = snapshots[1].size
      /\ only429
      /\ ~(result.kind \in {"ok", "thrown"} /\ result.tier = 0)
      /\ AttemptsAt(1) = 0 \/ (AttemptsAt(1) = 1 /\ result.kind = "ok") )
    => (result.kind = "ok" /\ result.tier = 1)

(***************************************************************************)
(* C5: a call ends in exactly one of three outcomes: the result of a       *)
(* successful provider attempt, the unchanged error of an attempt the      *)
(* catch block classified fatal, or the no-keys error; an error            *)
(* classified recoverable is never the outcome, and the no-keys error      *)
(* comes only after every tier from the start tier to the last was         *)
(* entered.                                                                *)
(***************************************************************************)
C5_ThreeOutcomes ==
    pc = "done" =>
        /\ result.kind \in {"ok", "thrown", "nokeys"}
        /\ result.kind = "ok" => <<result.key, result.tier>> \in attempted
        /\ result.kind = "thrown" =>
              /\ <<result.key, result.tier>> \in attempted
              /\ result.err = lastErr
              /\ NormalizedStatus(result.err) # 524
              /\ ~isRecoverableError(result.err)
        /\ result.kind = "nokeys" =>
              /\ Len(snapshots) = Len(MODEL_TIERS) - StartOf(reqModel)
              /\ \A n \in 1..Len(snapshots) : snapshots[n].tier = StartOf(reqModel) + n - 1

\* the no-keys error after attempts in both tiers
C5_Witness ==
    /\ pc = "done"
    /\ result.kind = "nokeys"
    /\ Len(snapshots) = 2
    /\ AttemptsAt(0) > 0
    /\ AttemptsAt(1) > 0

(***************************************************************************)
(* C6 as stated: in a call in which every provider attempt fails           *)
(* recoverably, the number of provider attempts equals the sum, over the   *)
(* tiers from the start tier to the last, of the size of the snapshot      *)
(* taken when the tier was entered.                                        *)
(***************************************************************************)
C6_AttemptsEqualSnapshotSizes ==
    (pc = "done" /\ result.kind = "nokeys") => attempts = SumSizes(snapshots)

(***************************************************************************)
(* C7: within one call no credential is passed to the provider more than   *)
(* once for the same tier.                                                 *)
(***************************************************************************)
C7_NoKeyTwicePerTier == attempts = Cardinality(attempted)

\* a second attempt in a tier while a key already tried there is available again
C7_Witness ==
    /\ pc = "calling"
    /\ AttemptsAt(i) >= 2
    /\ \E x \in triedKeys : x # key /\ Elapsed(x, now)

(***************************************************************************)
(* C8: the first provider attempt of a call uses the tier of the           *)
(* requested model (tier 0 when the model is not in the tier list), no     *)
(* attempt uses an earlier tier, and the tier of successive attempts       *)
(* never decreases.                                                        *)
(***************************************************************************)
C8_StartsAtRequestedTierAndMovesForward ==
    [][/\ (attempts = 0 /\ attempts' = 1) => attempted' = {<<key', StartOf(reqModel')>>}
       /\ \A a \in attempted' : a[2] >= StartOf(reqModel')
       /\ attempts' > attempts =>
            /\ <<key', i'>> \in attempted'
            /\ \A a \in attempted : a[2] <= i']_vars

\* a call for a model outside the tier list that attempted both tiers
C8_Witness ==
    /\ reqModel = "gemini-1.5-pro"
    /\ AttemptsAt(0) > 0
    /\ AttemptsAt(1) > 0

(***************************************************************************)
(* C9 as stated: every provider failure with HTTP status 429 or 403, and   *)
(* every failure whose message contains 'rate limit', 'quota' or           *)
(* 'exhaust' in any letter case, is handled as recoverable: the failing    *)
(* credential is marked exhausted for the tier's model with the            *)
(* configured override or the default cooldown, and the call goes on       *)
(* instead of propagating the error.                                       *)
(***************************************************************************)
C9_RateLimitIsRecoverable ==
    [][(ProviderFailed /\ RateLimited(lastErr')) => MarkedAndContinues]_vars

(***************************************************************************)
(* C10 as stated: every provider failure with HTTP status 524, and every   *)
(* failure whose message contains '524', is handled as a recoverable       *)
(* upstream timeout and never propagated as fatal.                         *)
(***************************************************************************)
C10_Any524IsRecoverable ==
    [][(ProviderFailed /\ TimedOut(lastErr')) => MarkedAndContinues]_vars

(***************************************************************************)
(* C10 amended: every provider failure with HTTP status 524, and every     *)
(* failure that carries no status at all and whose message contains        *)
(* '524', is handled as a recoverable upstream timeout: the credential is  *)
(* marked exhausted and rotation continues.  (The message is consulted     *)
(* only when the error carries no status.)                                 *)
(***************************************************************************)
C10_524StatusOrStatuslessMessage ==
    [][(ProviderFailed /\ (\/ HttpStatus(lastErr') = 524
                           \/ (HttpStatus(lastErr') = 0 /\ includes(lastErr'.message, RE_524))))
          => (branch' = "timeout" /\ MarkedAndContinues)]_vars

\* a failure without status classified as timeout from its message
C10_Witness ==
    /\ pc = "wait"
    /\ branch = "timeout"
    /\ HttpStatus(lastErr) = 0
    /\ includes(lastErr.message, RE_524)

C12_ChunksOfOneAttempt ==
    \A m, n \in 1..Len(Forwarded) :
        (Forwarded[m].attempt # 0 /\ Forwarded[n].attempt # 0)
            => Forwarded[m].attempt = Forwarded[n].attempt

(***************************************************************************)
(* C13: when the provider stream of an attempt completes without error,    *)
(* the chunks it yielded have each reached the caller and the writer       *)
(* exactly once and in the order it yielded them, nothing of another       *)
(* attempt comes between or after them, and the call ends there: no later  *)
(* attempt is made and the draining task closes the writer without         *)
(* writing anything more.                                                  *)
(***************************************************************************)
C13_CompletedAttemptInOrder ==
    (pc = "done" /\ result.kind = "ok") =>
        LET mine == ChunksOf(upstream, attempts)
        IN  /\ inflight = NoChunk
            /\ Len(out) >= Len(mine)
            /\ SubSeq(out, Len(out) - Len(mine) + 1, Len(out)) = mine
            /\ \A n \in 1..(Len(out) - Len(mine)) : out[n].attempt # attempts
            /\ \A n \in 1..Len(mine) : mine[n].seq = n
            /\ \A n \in 1..Len(upstream) : upstream[n].attempt <= attempts
            /\ pump \in {"draining", "closed"}

\* a completed attempt of two chunks after an attempt that failed after one
C13_Witness ==
    /\ pc = "done"
    /\ result.kind = "ok"
    /\ pump = "closed"
    /\ Len(ChunksOf(out, attempts)) = 2
    /\ Len(out) = 3

Carried == SelectSeq(bridgeOut, LAMBDA c : c.src # 0)

\* the emitted sequence is a strict embedding of the input, in order
StrictEmbedding ==
    /\ Len(Carried) = Len(bridgeIn)
    /\ Len(bridgeOut) > Len(bridgeIn)
    /\ \A n \in 1..Len(Carried) :
          /\ Carried[n].src = n
          /\ Carried[n].kind = bridgeIn[n].type
          /\ Carried[n].index = bridgeIn[n].index

\* the positions of the finish-reason chunks
FinishAt == {n \in 1..Len(bridgeOut) : bridgeOut[n].kind = "finish"}

\* the finish reason the emitted chunks call for
ReasonDue ==
    IF \E n \in 1..Len(bridgeOut) : bridgeOut[n].kind = "tool" THEN "tool_calls" ELSE "stop"

(***************************************************************************)
(* C15 as stated: for any input sequence, the chunk sequence emitted is a  *)
(* strict embedding of the input in order, starts with the role chunk and  *)
(* ends with exactly one finish-reason chunk ('tool_calls' if a tool call  *)
(* was emitted, else 'stop').                                              *)
(***************************************************************************)
C15_EndsWithFinishChunk ==
    bridge.phase = "closed" =>
        /\ StrictEmbedding
        /\ bridgeOut[1].kind = "role"
        /\ Cardinality(FinishAt) = 1
        /\ bridgeOut[Len(bridgeOut)].kind = "finish"
        /\ bridgeOut[Len(bridgeOut)].reason = ReasonDue

(***************************************************************************)
(* C15 amended: the emitted sequence is a strict embedding of the input    *)
(* in order, starts with the role chunk and holds exactly one              *)
(* finish-reason chunk ('tool_calls' if a tool call was emitted, else      *)
(* 'stop'), which comes after every content and tool-call chunk and is     *)
(* the last chunk unless usage data is available: then the usage chunk,    *)
(* and nothing else, follows it.                                           *)
(***************************************************************************)
C15_FinishChunkThenUsage ==
    bridge.phase = "closed" =>
        /\ StrictEmbedding
        /\ bridgeOut[1].kind = "role"
        /\ Cardinality(FinishAt) = 1
        /\ \A p \in FinishAt :
              /\ bridgeOut[p].reason = ReasonDue
              /\ \A n \in 1..(p - 1) : bridgeOut[n].kind # "usage"
              /\ \A n \in (p + 1)..Len(bridgeOut) : bridgeOut[n].kind = "usage"
              /\ Len(bridgeOut) - p =
                    Cardinality({n \in 1..Len(bridgeIn) : bridgeIn[n].type = "usage"})
              /\ Len(bridgeOut) - p <= 1

\* a closed bridge that carried content, a tool-call delta and the usage event
C15_Witness ==
    /\ bridge.phase = "closed"
    /\ Len(bridgeIn) = 3
    /\ bridgeIn[1].type = "text"
    /\ bridgeIn[2].type = "tool"
    /\ bridgeIn[3].type = "usage"
    /\ bridgeOut[Len(bridgeOut)].kind = "usage"

\* this step is a getNextClient call on an initialised pool
NextCalled == poolOp'.op = "next" /\ poolOp'.tag # poolOp.tag /\ Len(clients) > 0

\* this step is a call of the invalidation callback
MarkCalled == poolOp'.op = "mark" /\ poolOp'.tag # poolOp.tag

\* the times the pool's clock can show
PoolTimes == {StartTime + n * PoolTickMs : n \in 0..MaxPoolTicks}

\* entry j can be handed out at time t: never invalidated, or more than the
\* window ago
Acceptable(j, t) ==
    invalidClientTimestamps[j] = 0 \/ t - invalidClientTimestamps[j] > oneHour

\* the entries from the cursor on, in the order the pool examines them
FromCursor(m) == (currentIndex + m) % Len(clients)

(***************************************************************************)
(* C16 as stated: every getNextClient call advances the cursor by exactly  *)
(* one position modulo the pool size, whether it returns an entry, skips   *)
(* invalidated entries first, or fails.                                    *)
(***************************************************************************)
C16_CursorAdvancesByOne ==
    [][NextCalled => currentIndex' = (currentIndex + 1) % Len(clients)]_vars

(***************************************************************************)
(* C16 amended: every getNextClient call advances the cursor by one        *)
(* position modulo the pool size for each entry it examines: when it       *)
(* returns an entry the cursor ends just past that entry (one position     *)
(* plus one per invalidated entry skipped), and when it fails the cursor   *)
(* has gone round the whole pool and is back where it was.                 *)
(***************************************************************************)
C16_CursorAdvancesPerCandidate ==
    [][NextCalled =>
          /\ currentIndex' = (currentIndex + poolOp'.attempts) % Len(clients)
          /\ poolOp'.client # NoClient =>
                /\ currentIndex' = (poolOp'.client + 1) % Len(clients)
                /\ poolOp'.client = FromCursor(poolOp'.attempts - 1)
                /\ \A m \in 0..(poolOp'.attempts - 2) : ~Acceptable(FromCursor(m), now)
          /\ poolOp'.client = NoClient =>
                /\ poolOp'.attempts = Len(clients)
                /\ currentIndex' = currentIndex]_vars

\* a call that skipped an invalidated entry and returned the one after it
C16_Witness ==
    /\ poolOp.op = "next"
    /\ poolOp.client # NoClient
    /\ poolOp.attempts >= 2
    /\ currentIndex = (poolOp.client + 1) % Len(clients)

(***************************************************************************)
(* C17: getNextClient never returns an entry that is invalidated and for   *)
(* which less than the window has elapsed at the time of the call; the     *)
(* entry it returns is the first one from the cursor that is not           *)
(* invalidated or was invalidated more than the window ago.                *)
(***************************************************************************)
C17_NeverReturnsInvalidated ==
    [][(NextCalled /\ poolOp'.client # NoClient) =>
          LET c == poolOp'.client
          IN  /\ ~(invalidClientTimestamps[c] # 0 /\
                     now - invalidClientTimestamps[c] < oneHour)
              /\ Acceptable(c, now)
              /\ \E m \in 0..(Len(clients) - 1) :
                    /\ c = FromCursor(m)
                    /\ \A m2 \in 0..(m - 1) : ~Acceptable(FromCursor(m2), now)]_vars

\* an entry was returned while another one is inside its window
C17_Witness ==
    /\ poolOp.op = "next"
    /\ poolOp.client # NoClient
    /\ invalidClientTimestamps[poolOp.client] = 0
    /\ \E j \in 0..(Len(clients) - 1) :
          invalidClientTimestamps[j] # 0 /\ now - invalidClientTimestamps[j] < oneHour

(***************************************************************************)
(* C18: on a non-empty pool getNextClient fails exactly when no entry is   *)
(* acceptable (every entry is invalidated and not yet past its window);    *)
(* when an entry is acceptable it returns one, after examining at most     *)
(* poolSize candidates.                                                    *)
(***************************************************************************)
C18_FailsIffNoneAcceptable ==
    [][NextCalled =>
          /\ poolOp'.client = NoClient <=>
                \A j \in 0..(Len(clients) - 1) :
                    /\ invalidClientTimestamps[j] # 0
                    /\ now - invalidClientTimestamps[j] <= oneHour
          /\ poolOp'.attempts >= 1
          /\ poolOp'.attempts <= Len(clients)]_vars

\* an entry was returned as the last of poolSize candidates
C18_Witness ==
    /\ poolOp.op = "next"
    /\ poolOp.client # NoClient
    /\ Len(clients) >= 2
    /\ poolOp.attempts = Len(clients)

(***************************************************************************)
(* C19: the invalidation callback is idempotent: on an entry that is       *)
(* already invalidated it changes nothing, so the time of the first        *)
(* invalidation is kept, and after any invocation a second one, at any     *)
(* time, leaves the state as it is.                                        *)
(***************************************************************************)
C19_MarkInvalidIdempotent ==
    [][MarkCalled =>
          /\ invalidClientTimestamps[poolOp'.client] # 0 =>
                invalidClientTimestamps' = invalidClientTimestamps
          /\ invalidClientTimestamps[poolOp'.client] = 0 =>
                invalidClientTimestamps' =
                    [invalidClientTimestamps EXCEPT ![poolOp'.client] = now]
          /\ \A t \in PoolTimes :
                markInvalid(invalidClientTimestamps', poolOp'.client, t) =
                    invalidClientTimestamps'
          /\ currentIndex' = currentIndex
          /\ clients' = clients]_vars

\* the callback was invoked on an entry invalidated earlier
C19_Witness ==
    /\ poolOp.op = "mark"
    /\ invalidClientTimestamps[poolOp.client] # 0
    /\ invalidClientTimestamps[poolOp.client] < now

\* this step is a setKeys call
SetKeysCalled == lastOp'.op = "set" /\ lastOp' # lastOp

(***************************************************************************)
(* C20: after setKeys(keys) the working set is exactly the distinct        *)
(* elements of keys, no key outside the new set has a cooldown record,     *)
(* the record of every retained key is the record it had before the call,  *)
(* and a second setKeys(keys) leaves the state as the first one left it.   *)
(***************************************************************************)
C20_SetKeysFrame ==
    [][SetKeysCalled =>
          LET ks == lastOp'.list
          IN  /\ Range(keys') = Range(ks)
              /\ \A m, n \in 1..Len(keys') : keys'[m] = keys'[n] => m = n
              /\ \A x \in KeyUniverse \ Range(ks) : ~keyStatus'[x].present
              /\ \A x \in Range(ks) :
                    keyStatus[x].present => keyStatus'[x] = keyStatus[x]
              /\ Distinct(ks) = keys'
              /\ setKeysStatus(keyStatus', Distinct(ks)) = keyStatus'
              /\ tierCooldownMs' = tierCooldownMs]_vars

\* setKeys was called with a repeated key; a key in cooldown was retained
\* with its record and another key was left out
C20_Witness ==
    /\ lastOp.op = "set"
    /\ Len(lastOp.list) > Len(keys)
    /\ \E x \in Range(keys) : keyStatus[x].exhaustedUntil > now
    /\ Len(keys) < NumKeys

\* this step is the end of the load started by the constructor
LoadResolved == kmLoad.state = "pending" /\ kmLoad'.state # "pending"

(***************************************************************************)
(* C21: on a KeyManager constructed without keys, loading a document       *)
(* whose keys array is empty and whose keyStatus holds records of keys     *)
(* the manager does not know ends normally and leaves getTotalKeysCount    *)
(* and getAvailableKeysCount at 0.                                         *)
(***************************************************************************)
C21_EmptyKeysDocumentLoads ==
    [][(LoadResolved /\ keys = <<>> /\ kmLoad.doc.present /\ kmLoad.doc.keys = <<>>
            /\ kvDoc = kmLoad.doc /\ kmLoad'.state # "failed") =>
          /\ kmLoad'.state = "loaded"
          /\ getTotalKeysCount(keys') = 0
          /\ getAvailableKeysCount(keys', keyStatus', now') = 0]_vars

\* such a document was loaded: a record is held for a key outside the working set
C21_Witness ==
    /\ kmLoad.state = "loaded"
    /\ keys = <<>>
    /\ kvDoc.keys = <<>>
    /\ \E x \in KeyUniverse :
          kvDoc.keyStatus[x].present /\ keyStatus[x] = kvDoc.keyStatus[x]

\* this step is a markKeyExhausted call
MarkCompleted == lastOp'.op = "mark" /\ (lastOp' # lastOp \/ kvDoc' # kvDoc)

(***************************************************************************)
(* C22: markKeyExhausted(k, m, c) leaves k in the working set with         *)
(* exhaustedUntil = now + c*1000 and every other record as it was, whether *)
(* the store took the write, refused it, or is not bound: the answer of    *)
(* isKeyAvailable(k) after the call is the same in all three cases.        *)
(***************************************************************************)
C22_MarkSurvivesFailedWrite ==
    [][MarkCompleted =>
          LET x == lastOp'.key
          IN  /\ x \in Range(keys')
              /\ keyStatus'[x].present
              /\ keyStatus'[x].exhaustedUntil = now + CooldownOf(lastOp'.cooldown)
              /\ \A y \in KeyUniverse \ {x} : keyStatus'[y] = keyStatus[y]
              /\ isKeyAvailable(keyStatus', x, now') <=> CooldownOf(lastOp'.cooldown) = 0
              /\ (~hasKv \/ kvDoc' = kvDoc \/ kvDoc'.keyStatus = keyStatus')]_vars

\* the store refused the write of a mark, and the key is in cooldown in memory
C22_Witness ==
    /\ lastOp.op = "mark"
    /\ hasKv
    /\ kmLoad.state = "pending"
    /\ kvDoc.keyStatus[lastOp.key] # keyStatus[lastOp.key]
    /\ keyStatus[lastOp.key].exhaustedUntil = lastOp.at + CooldownOf(lastOp.cooldown)
    /\ ~isKeyAvailable(keyStatus, lastOp.key, now)

\* this step is the end of the load started by the UsageTracker constructor
UsageLoadResolved == usageLoad.state = "pending" /\ usageLoad'.state # "pending"

\* this step is a recordUsage call
RecordCalled ==
    usageOp'.op = "record" /\ (usageOp' # usageOp \/ usage' # usage \/ usageDoc' # usageDoc)

NoPriorState == {"failed", "nothing", "garbage"}

(***************************************************************************)
(* C23: when the read of the store fails, returns nothing or returns a     *)
(* document that does not parse, the load started by the KeyManager        *)
(* constructor leaves keys and keyStatus as they were, and the load        *)
(* started by the UsageTracker constructor leaves an empty log; neither    *)
(* raises.                                                                 *)
(***************************************************************************)
C23_FailedLoadIsNoPriorState ==
    [][/\ (LoadResolved /\ kmLoad'.state \in NoPriorState) =>
             /\ keys' = keys
             /\ keyStatus' = keyStatus
             /\ Len(keys') = NumKeys
       /\ (UsageLoadResolved /\ usageLoad'.state \in NoPriorState) =>
             usage' = <<>>
       /\ LoadResolved => kmLoad'.state \in NoPriorState \cup {"loaded"}
       /\ UsageLoadResolved => usageLoad'.state \in NoPriorState \cup {"notarray", "loaded"}]_vars

\* both loads ended without prior state, the usage load after a record was
\* written
C23_Witness ==
    /\ kmLoad.state \in NoPriorState
    /\ usageLoad.state \in NoPriorState
    /\ usageOp.op = "load"
    /\ usageDoc.kind = "array"
    /\ Len(usageDoc.recs) = 1
    /\ usage = <<>>

\* record u is not older than the retention window at time t
Fresh(u, t) == u.timestamp # <<>> /\ u.timestamp[1] >= t - retentionMs

\* the records of log that are not older than the window, in order
FreshOf(log, t) == SelectSeq(log, LAMBDA u : Fresh(u, t))

\* a can be obtained from b by deleting elements
RECURSIVE IsSubSeq(_, _)
IsSubSeq(a, b) ==
    IF a = <<>> THEN TRUE
    ELSE IF b = <<>> THEN FALSE
    ELSE IF Head(a) = Head(b) THEN IsSubSeq(Tail(a), Tail(b))
    ELSE IsSubSeq(a, Tail(b))

(***************************************************************************)
(* C25: after every recordUsage call and after the load started by the     *)
(* constructor completes, the log holds no record older than now minus     *)
(* the retention window, and every record inside the window that was in    *)
(* the log, in the loaded document, or just appended is still in the log,  *)
(* in its original relative order.                                         *)
(***************************************************************************)
C25_PrunedAndNothingElseLost ==
    [][/\ RecordCalled =>
             usage' = FreshOf(usage \o usageOp'.rec, now)
       /\ UsageLoadResolved =>
             /\ \A n \in 1..Len(usage') : Fresh(usage'[n], now)
             /\ IsSubSeq(FreshOf(usage, now), usage')
             /\ usageLoad'.state = "loaded" =>
                   \E doc \in ReadValues(usageLoad.doc, usageDoc) :
                       IsSubSeq(FreshOf(doc.recs, now), usage')]_vars

RECURSIVE SumOver(_, _, _)
\* the sum of field f of log over the positions in idx
SumOver(log, idx, f) ==
    IF idx = {} THEN 0
    ELSE LET n == CHOOSE n \in idx : TRUE
         IN  log[n][f] + SumOver(log, idx \ {n}, f)

\* the positions of the records of key g, and of model m
OfKey(g) == {n \in 1..Len(usage) : GroupKey(usage[n]) = g}
OfModel(m) == {n \in 1..Len(usage) : usage[n].model = m}

RECURSIVE SumCalls(_)
SumCalls(s) == IF s = <<>> THEN 0 ELSE Head(s).calls + SumCalls(Tail(s))

(***************************************************************************)
(* C26: getKeySummaries returns one summary per key of the log (records    *)
(* without a key under "<no-key>"), each with the sums of input and        *)
(* output tokens, the number of records and the latest timestamp of the    *)
(* key, in order of non-increasing calls; getModelUsageTotals holds the    *)
(* same sums per model; the calls of either add up to the length of the    *)
(* log.                                                                    *)
(***************************************************************************)
C26_SummariesAggregate ==
    LET S == getKeySummaries(usage)
        M == getModelUsageTotals(usage)
    IN  /\ {S[n].key : n \in 1..Len(S)} = {GroupKey(usage[n]) : n \in 1..Len(usage)}
        /\ \A n, m \in 1..Len(S) : S[n].key = S[m].key => n = m
        /\ \A n \in 1..Len(S) :
              /\ S[n].calls = Cardinality(OfKey(S[n].key))
              /\ S[n].totalInputTokens = SumOver(usage, OfKey(S[n].key), "inputTokens")
              /\ S[n].totalOutputTokens = SumOver(usage, OfKey(S[n].key), "outputTokens")
              /\ \E j \in OfKey(S[n].key) : usage[j].timestamp[1] = S[n].lastUsed
              /\ \A j \in OfKey(S[n].key) : usage[j].timestamp[1] <= S[n].lastUsed
        /\ \A n \in 1..(Len(S) - 1) : S[n].calls >= S[n + 1].calls
        /\ DOMAIN M = {usage[n].model : n \in 1..Len(usage)}
        /\ \A m \in DOMAIN M :
              /\ M[m].calls = Cardinality(OfModel(m))
              /\ M[m].inputTokens = SumOver(usage, OfModel(m), "inputTokens")
              /\ M[m].outputTokens = SumOver(usage, OfModel(m), "outputTokens")
        /\ SumCalls(S) = Len(usage)
        /\ SumOver([n \in 1..Len(S) |-> S[n]], 1..Len(S), "calls") = Len(usage)
        /\ LET models == CHOOSE q \in [1..Cardinality(DOMAIN M) -> DOMAIN M] :
                              \A a, b \in DOMAIN q : q[a] = q[b] => a = b
           IN  SumCalls([n \in DOMAIN models |-> M[models[n]]]) = Len(usage)

\* the key used most was not the first one recorded
C26_Witness ==
    /\ Len(usage) = 3
    /\ getKeySummaries(usage)[1].calls = 2
    /\ getKeySummaries(usage)[1].key # GroupKey(usage[1])
    /\ Cardinality(DOMAIN getModelUsageTotals(usage)) = 2

\* the keys of the length of s that getStatusSnapshot shows as it shows s
ShownAlike(s) == {s2 \in [1..Len(s) -> KeyChars] : maskKey(s2) = maskKey(s)}

(***************************************************************************)
(* C24: for every key of the working set, of every length, the details     *)
(* entry of getStatusSnapshot does not contain the key, and shows so       *)
(* little of it that the key cannot be read from the entry: another key    *)
(* of the same length is shown the same way.                               *)
(***************************************************************************)
C24_SnapshotHidesKeys ==
    lastOp.op = "snapshot" =>
        \A n \in 1..Len(keys) :
            LET shown == lastOp.list[1].details[n].key
            IN  /\ ~includes(shown, keys[n])
                /\ ShownAlike(keys[n]) # {keys[n]}

(***************************************************************************)
(* C29.  A call of the admin status endpoint on an initialised pool        *)
(* changes neither the pool, nor the rotating cursor, nor any invalidation *)
(* timestamp, nor any cooldown record, so that the next getNextClient      *)
(* returns what it would have returned without the status call.            *)
(***************************************************************************)
StatusCalled == poolOp'.op = "status" /\ poolOp' # poolOp

C29_StatusCallChangesNothing ==
    [][(StatusCalled /\ Len(clients) > 0) =>
          /\ UNCHANGED <<clients, currentIndex, invalidClientTimestamps>>
          /\ UNCHANGED <<keys, keyStatus>>
          /\ NextClientLoop(Len(clients'), currentIndex', invalidClientTimestamps', now', 0)
                = NextClientLoop(Len(clients), currentIndex, invalidClientTimestamps, now, 0)
          /\ \A m \in 1..Len(clients) :
                poolOp'.statuses[m].isValid = (invalidClientTimestamps[clients[m]] = 0)]_vars

\* the statuses of a pool with a moved cursor and an invalidated client
C29_Witness ==
    /\ poolOp.op = "status"
    /\ Len(clients) = PoolSize
    /\ currentIndex # 0
    /\ \E j \in 0..(PoolSize - 1) : invalidClientTimestamps[j] # 0
    /\ \E m \in 1..Len(poolOp.statuses) : ~poolOp.statuses[m].isValid

(***************************************************************************)
(* C30.  In the streaming request path the next chunk is pulled from the   *)
(* provider stream only after the write of the previous chunk was          *)
(* accepted: the chunks written are a prefix of the chunks pulled, at most *)
(* one chunk is pulled and not yet written, and it is the one whose write  *)
(* is pending.                                                             *)
(***************************************************************************)
Pulled == upstream
Accepted == SelectSeq(out, LAMBDA c : c.attempt # 0)

C30_AtMostOneChunkInFlight ==
    /\ Len(Pulled) - Len(Accepted) \in {0, 1}
    /\ Accepted = SubSeq(Pulled, 1, Len(Accepted))
    /\ (inflight = NoChunk) = (Len(Pulled) = Len(Accepted))
    /\ inflight # NoChunk => inflight = Pulled[Len(Pulled)]

\* the second chunk of an attempt waits for its write after the first was accepted
C30_Witness ==
    /\ inflight # NoChunk
    /\ inflight.seq = 2
    /\ Len(Accepted) >= 1
    /\ Len(Pulled) = Len(Accepted) + 1

(***************************************************************************)
(* C27: a chat-completion request with an empty messages list, an unknown  *)
(* model, or image input for a model without image support is answered     *)
(* with status 400 before any provider call; handling it leaves the pool   *)
(* (clients, cursor, invalidation timestamps) and all cooldown state (the  *)
(* KeyManager, the stored document, the pending load) unchanged.           *)
(***************************************************************************)
Handled == request' # request \/ response' # response
Invalid(req) ==
    \/ req.messages = 0
    \/ ~req.known
    \/ req.hasImages /\ ~req.supportsImages

C27_InvalidRequestFailsFast ==
    [][(Handled /\ Invalid(request')) =>
          /\ response' = HTTP_BAD_REQUEST
          /\ UNCHANGED <<clients, currentIndex, invalidClientTimestamps, poolOp>>
          /\ UNCHANGED <<keys, keyStatus, kvDoc, kmLoad>>
          /\ UNCHANGED <<pc, attempts, attempted, snapshots>>]_vars

\* an image request for a model without image support, refused while the
\* cursor has moved, a client is invalidated and a key is cooling down
C27_Witness ==
    /\ response = HTTP_BAD_REQUEST
    /\ request.hasImages /\ ~request.supportsImages
    /\ request.messages > 0 /\ request.known
    /\ currentIndex # 0
    /\ \E j \in 0..(PoolSize - 1) : invalidClientTimestamps[j] # 0
    /\ \E x \in KeyUniverse : keyStatus[x].present /\ keyStatus[x].exhaustedUntil > now

(***************************************************************************)
(* C28: with ENABLE_AUTO_MODEL_SWITCHING set to "false" a request for      *)
(* gemini-2.5-pro is never attempted against gemini-2.5-flash; with the    *)
(* binding unset or "true" a call that runs out of keys has gone on to     *)
(* the gemini-2.5-flash tier.                                              *)
(***************************************************************************)
C28_SwitchingOffDisablesFallback ==
    reqModel = MODEL_TIERS[1] =>
        IF env.switching = "false"
        THEN \A a \in attempted : currentModel(a[2]) # MODEL_TIERS[2]
        ELSE (pc = "done" /\ result.kind = "nokeys") =>
                 \E n \in 1..Len(snapshots) : currentModel(snapshots[n].tier) = MODEL_TIERS[2]

(***************************************************************************)
(* C31: every credential the Rotator passes to the provider in a tier is   *)
(* a member of the snapshot of available credentials taken when the tier   *)
(* was entered, also when other credentials become available while the     *)
(* tier is being worked through.                                           *)
(***************************************************************************)
C31_AttemptedKeyIsInSnapshot ==
    pc = "calling" => key \in Range(availableKeys)

(***************************************************************************)
(* C32: after a restart the persisted state is reloaded before the first   *)
(* credential selection: a key whose unexpired cooldown is in the store is *)
(* not in a tier snapshot and is never passed to the provider by the new   *)
(* process, the first request included.                                    *)
(***************************************************************************)
PersistedCooling(x) ==
    /\ kvDoc.present
    /\ kvDoc.keyStatus[x].present
    /\ kvDoc.keyStatus[x].exhaustedUntil > now

C32_PersistedCooldownRespected ==
    \A x \in KeyUniverse :
        PersistedCooling(x) =>
            /\ ~(pc = "calling" /\ key = x)
            /\ (pc = "loop" => x \notin Range(availableKeys))

(***************************************************************************)
(* C33: a cooldown set by markKeyExhausted(k, ...) is never cleared or     *)
(* shortened by the load the constructor started, whichever of the two     *)
(* completes first: once both have completed, the record of k ends no      *)
(* earlier than the exhaustedUntil the mark set.                           *)
(***************************************************************************)
MarkedUntil == lastOp.at + CooldownMs(lastOp.cooldown, tierCooldownMs)

C33_LoadKeepsMarkedCooldown ==
    (lastOp.op = "mark" /\ kmLoad.state # "pending") =>
        /\ keyStatus[lastOp.key].present
        /\ keyStatus[lastOp.key].exhaustedUntil >= MarkedUntil
        /\ now < MarkedUntil => ~isKeyAvailable(keyStatus, lastOp.key, now)

(***************************************************************************)
(* C34: a usage record inside the retention window stays in the log until  *)
(* it ages out, however recordUsage interleaves with the load started at   *)
(* construction: no step removes a record that is still inside the window  *)
(* or changes the order of the records that stay.                          *)
(***************************************************************************)
C34_RecordsStayUntilAgedOut ==
    [][IsSubSeq(FreshOf(usage, now'), usage')]_vars

(***************************************************************************)
(* C35: with two instances on one store, an unexpired cooldown that one    *)
(* instance's markKeyExhausted wrote to the document is still in the       *)
(* document, and not shortened, after a later markKeyExhausted write of    *)
(* the other instance.                                                     *)
(***************************************************************************)
StoredUntil(doc, x) ==
    IF doc.present /\ doc.keyStatus[x].present THEN doc.keyStatus[x].exhaustedUntil ELSE 0

\* the key whose cooldown the instance that does not write in this step marked
OtherKey == IF peer' # peer THEN FirstKey ELSE PeerKey

C35_WriteKeepsOtherCooldowns ==
    [][(kvDoc' # kvDoc /\ StoredUntil(kvDoc, OtherKey) > now) =>
          StoredUntil(kvDoc', OtherKey) >= StoredUntil(kvDoc, OtherKey)]_vars

(***************************************************************************)
(* C36: when getNextClient examines an entry whose invalidation timestamp  *)
(* is set, the timestamp is cleared and the entry returned if and only if  *)
(* strictly more than one hour has passed since the invalidation (at       *)
(* exactly one hour the entry is still skipped and keeps its timestamp),   *)
(* and no other step ever clears or changes a timestamp that is set.       *)
(***************************************************************************)
Examined(j) == \E m \in 0..(poolOp'.attempts - 1) : j = FromCursor(m)

C36_ReEnabledOnlyAfterTheHour ==
    [][\A j \in 0..(Len(clients) - 1) :
          invalidClientTimestamps[j] # 0 =>
              LET cleared == invalidClientTimestamps'[j] = 0
                  late == now - invalidClientTimestamps[j] > oneHour
              IN  /\ invalidClientTimestamps'[j] \in {0, invalidClientTimestamps[j]}
                  /\ cleared => (NextCalled /\ Examined(j) /\ late)
                  /\ (NextCalled /\ Examined(j)) =>
                        /\ cleared <=> late
                        /\ poolOp'.client = j <=> late]_vars

\* an entry invalidated exactly one hour ago was skipped and the next one returned
C36_Witness ==
    /\ poolOp.op = "next"
    /\ poolOp.client # NoClient
    /\ poolOp.attempts > 1
    /\ \E j \in 0..(Len(clients) - 1) :
          /\ invalidClientTimestamps[j] # 0
          /\ now - invalidClientTimestamps[j] = oneHour
          /\ poolOp.client = (j + 1) % Len(clients)

(***************************************************************************)
(* C37: the selection order of the pool is stable and fair: of two         *)
(* successful getNextClient calls in a row (no invalidation in between),   *)
(* the second returns the first acceptable entry after the one the first   *)
(* returned, in cyclic index order, and the entry just after it when       *)
(* nothing is invalidated; so the acceptable entries are returned in turn. *)
(***************************************************************************)
\* the entry m places after entry j, cyclically
After(j, m) == (j + m) % Len(clients)

QueryCalled == lastOp'.op = "query" /\ lastOp' # lastOp
NextKeyCalled == lastOp'.op = "next" /\ lastOp' # lastOp
AvailableNow == {x \in Range(keys) : isKeyAvailable(keyStatus, x, now)}

C38_QueriesAgree ==
    [][/\ QueryCalled =>
            LET q == lastOp'.list[1]
            IN  /\ q.available = Cardinality({x \in Range(keys) : q.isAvailable[x]})
                /\ q.available = Cardinality(AvailableNow)
                /\ 0 <= q.available /\ q.available <= q.total
                /\ q.total = Len(keys)
                /\ q.snapshot.total = q.total
                /\ q.snapshot.available = q.available
                /\ Len(q.snapshot.details) = Len(keys)
                /\ \A n \in 1..Len(keys) :
                      /\ q.snapshot.details[n].key = maskKey(charsOf(keys[n]))
                      /\ q.snapshot.details[n].available = q.isAvailable[keys[n]]
       /\ NextKeyCalled =>
            (lastOp'.key = NoKey <=> getAvailableKeysCount(keys, keyStatus, now) = 0)]_vars

\* the queries of a manager with one key cooling down and one available
C38_Witness ==
    /\ lastOp.op = "query"
    /\ lastOp.list[1].total = NumKeys
    /\ lastOp.list[1].available = NumKeys - 1
    /\ \E n \in 1..Len(keys) : ~lastOp.list[1].snapshot.details[n].available

(***************************************************************************)
(* C39: every generateContent / streamContent call terminates when each    *)
(* provider call and each persistence write terminates, and in each tier   *)
(* it makes at most as many provider attempts as the snapshot of that tier *)
(* is long, for every cooldown setting (an override of 0 included) and     *)
(* every order in which getNextAvailableKey yields keys.                   *)
(***************************************************************************)
Running == pc \in {"tier", "loop", "calling", "wait"}

AttemptsWithinSnapshots ==
    /\ attempts <= SumSizes(snapshots)
    /\ \A n \in 1..Len(snapshots) : AttemptsAt(snapshots[n].tier) <= snapshots[n].size
    /\ \A t \in 0..(Len(MODEL_TIERS) - 1) :
          (\A n \in 1..Len(snapshots) : snapshots[n].tier # t) => AttemptsAt(t) = 0

C39_CallTerminates ==
    /\ []AttemptsWithinSnapshots
    /\ Running ~> (pc = "done")

\* a call under a cooldown override of 0 that ended without a key after
\* attempts in both tiers
C39_Witness ==
    /\ pc = "done"
    /\ perKeyCooldownSeconds = <<0>>
    /\ result.kind = "nokeys"
    /\ AttemptsAt(0) > 0
    /\ AttemptsAt(1) > 0

(***************************************************************************)
(* C40 as stated: saveJsonAtomic never leaves filePath holding a partly    *)
(* written or mixed document, two saves of the same filePath running at    *)
(* once included: filePath is absent, unchanged, or holds the complete     *)
(* JSON of exactly one of the saves, and a save that reported success has  *)
(* its complete document, or that of another save, in filePath.            *)
(***************************************************************************)
TargetDoc == IF disk.target = 0 THEN <<>> ELSE disk.content[disk.target]

C40_TargetNeverPartial ==
    disk # NoDisk =>
        /\ \/ disk.target = 0
           \/ disk.target = PriorFile /\ TargetDoc = DocOf(0)
           \/ \E s \in Savers : TargetDoc = DocOf(s)
        /\ \A s \in Savers :
              disk.saver[s].pc = "saved" =>
                  /\ disk.target # 0
                  /\ \E s2 \in Savers : TargetDoc = DocOf(s2)

====
